---- MODULE Spec2Model ----
(***************************************************************************)
(* A model of tsfpga: the module abstraction (file discovery, register     *)
(* caching, file lists, scoped constraints, module discovery, VUnit        *)
(* configurations) of tsfpga/module.py, the Yosys/GHDL netlist build of    *)
(* tsfpga/yosys/project.py, the GHDL simlib compilation of                 *)
(* tsfpga/vivado_simlib_ghdl.py and the markdown pass of                   *)
(* tsfpga/register_html_generator.py.                                      *)
(*                                                                         *)
(* File names and texts are sequences of one-character strings, so that    *)
(* lower(), endswith(), slicing and regular-expression substitution are    *)
(* computed character by character.                                        *)
(***************************************************************************)
EXTENDS Integers, Sequences, FiniteSets, TLC

VARIABLES
    fs,             \* module.py: entries of the module folder tree on disk
    tomlExists,     \* module.py:123-124 regs_<name>.toml exists
    registers,      \* BaseModule._registers: None or the identity of a RegisterList
    parserCalls,    \* number of from_toml calls
    hookCalls,      \* number of registers_hook calls
    readObjs,       \* every value a read of the registers property has returned
    called,         \* some accessor of the module object has been called
    calledReading,  \* an accessor whose code reads self.registers has run
    op,             \* the last call on the module: name and arguments
    ret,            \* the list the last call returned
    raised,         \* the exception the last call raised, or "none"
    text,           \* register_html_generator.py: a description to render
    html,           \* what _markdown_parser returned for it
    mdDone,         \* _markdown_parser has run
    projFiles,      \* yosys/project.py: the source files of self._vunit_proj
    vhdlStandard,   \* self._vhdl_standard._standard
    synthCommand,   \* self.synth_command
    yosysFound,     \* a yosys executable is given or on PATH
    implementationSubset,   \* self._implementation_subset
    libraryCompileOrder,    \* self._library_compile_order
    subsetCalls,    \* number of get_implementation_subset calls
    pc,             \* where build() is: "idle", "ghdl" or "yosys" running
    pending,        \* build(): the VHDL files _ghdl_analyze has still to analyze
    analyzed,       \* build(): the files analyzed in this invocation, with exit code
    analyzeRet,     \* build(): what _ghdl_analyze returned, "none" before it returns
    yosysRuns,      \* build(): Yosys processes started in this invocation
    yosysExit,      \* build(): the exit code of the Yosys process, -1 before it exits
    script,         \* the text the last _create_script returned
    outcome,        \* how the last build() ended
    yop,            \* the last method called on the netlist build
    yret,           \* the file list it returned
    yraised,        \* the exception it raised, or "none"
    simTree,        \* vivado_simlib_ghdl.py: the library sources of the Vivado install
    simPc,          \* where _compile is: "idle", "ghdl" running, "done" or "raised"
    simStage,       \* _compile: the loop of the _compile_<library> methods it is in
    simTodo,        \* _compile: the files that loop has still to pass to GHDL
    compiled,       \* _compile: the files passed to GHDL, with library and exit code
    simRaised,      \* the exception _compile raised, or "none"
    simDirs,        \* the directories that exist under the simlib output path
    vunitLibs,      \* the external libraries added to self._vunit_proj
    addState,       \* _add_to_vunit_project: "none", "returned" or "raised"
    ghdlOutput,     \* what "ghdl --version" prints
    tagDone,        \* _get_simulator_tag has run
    tagRet,         \* the string it handed to _format_version
    tagRaised,      \* the exception it raised, or "none"
    tagMessage,     \* the message of that exception
    modTree,        \* module.py get_modules: the entries under the modules folders
    modOp,          \* the arguments of the last get_modules call
    modules,        \* the ModuleList it returned
    cfgArgs,        \* module.py add_vunit_config: the arguments of the call
    cfgDone,        \* add_vunit_config has returned
    addConfigCalls  \* the test.add_config calls it has made

moduleVars == <<fs, tomlExists, registers, parserCalls, hookCalls, readObjs,
                called, calledReading, op, ret, raised>>

mdVars == <<text, html, mdDone>>

yosysVars == <<projFiles, vhdlStandard, synthCommand, yosysFound, implementationSubset,
               libraryCompileOrder, subsetCalls, pc, pending, analyzed, analyzeRet, yosysRuns,
               yosysExit, script, outcome, yop, yret, yraised>>

simlibVars == <<simTree, simPc, simStage, simTodo, compiled, simRaised,
                simDirs, vunitLibs, addState,
                ghdlOutput, tagDone, tagRet, tagRaised, tagMessage>>

discoveryVars == <<modTree, modOp, modules>>

vunitVars == <<cfgArgs, cfgDone, addConfigCalls>>

vars == <<moduleVars, mdVars, yosysVars, simlibVars, discoveryVars, vunitVars>>

----------------------------------------------------------------------------
(* Bounds of the model *)

\* most entries the module folder tree starts with
MaxFiles == 3

\* most calls of registers_hook a behaviour goes through
MaxHookCalls == 2

\* longest description text drawn from the markdown alphabet
MaxTextLen == 4

\* most source files in the VUnit project of a netlist build
MaxProjectFiles == 3

\* most lines of the vhdl_analyze_order manifest of unisim
MaxManifestLen == 2

\* most characters of the version output after its first word
MaxOutputLen == 5

\* most entries under the modules folders
MaxModuleEntries == 3

\* longest text put between a pair of markers
MaxPlainLen == 3

\* the largest number of generics a caller of add_vunit_config passes
MaxGenerics == 2

----------------------------------------------------------------------------
(* Strings as character sequences *)

None == "None"

UpperCase ==
    <<"A", "B", "C", "D", "E", "F", "G", "H", "I", "J", "K", "L", "M", "N",
      "O", "P", "Q", "R", "S", "T", "U", "V", "W", "X", "Y", "Z">>

LowerCase ==
    <<"a", "b", "c", "d", "e", "f", "g", "h", "i", "j", "k", "l", "m", "n",
      "o", "p", "q", "r", "s", "t", "u", "v", "w", "x", "y", "z">>

\* the lower-case letter of every upper-case letter
LowerOf ==
    [c \in {UpperCase[i] : i \in 1..Len(UpperCase)} |->
        LowerCase[CHOOSE i \in 1..Len(UpperCase) : UpperCase[i] = c]]

\* str.lower() on one character
LowerChar(c) == IF c \in DOMAIN LowerOf THEN LowerOf[c] ELSE c

\* str.lower()
Lower(s) == [i \in 1..Len(s) |-> LowerChar(s[i])]

\* str.endswith(suffix)
EndsWith(s, suffix) ==
    /\ Len(suffix) <= Len(s)
    /\ SubSeq(s, Len(s) - Len(suffix) + 1, Len(s)) = suffix

\* str.endswith(tuple of suffixes)
EndsWithAny(s, suffixes) == \E suffix \in suffixes : EndsWith(s, suffix)

\* the positions of "." in a name
DotPositions(s) == {i \in 1..Len(s) : s[i] = "."}

Max(S) == CHOOSE x \in S : \A y \in S : y <= x

\* pathlib's Path.stem: the name without its last suffix (a leading dot is no suffix)
Stem(s) ==
    LET dots == DotPositions(s) \ {1}
    IN  IF dots = {} \/ Max(dots) = Len(s) THEN s ELSE SubSeq(s, 1, Max(dots) - 1)

RECURSIVE SetToSeq(_)
\* the elements of a finite set in some fixed order (the directory order of the OS)
SetToSeq(S) ==
    IF S = {} THEN <<>>
    ELSE LET x == CHOOSE y \in S : TRUE IN <<x>> \o SetToSeq(S \ {x})

SeqToSet(s) == {s[i] : i \in 1..Len(s)}

----------------------------------------------------------------------------
(* The file system under the module folder *)

\* the folders the module looks in, relative to the module path
Folders == {".", "src", "rtl", "hdl/rtl", "hdl/package", "sim", "test", "rtl/tb",
            "scoped_constraints", "entity_constraints", "hdl/constraints", "ip_cores"}

Entry(dir, name, kind) == [dir |-> dir, name |-> name, kind |-> kind]

\* pathlib.Path of an entry: where it is, not what it is
PathOf(e) == [dir |-> e.dir, name |-> e.name]

\* the entries a module folder tree is drawn from
CandidateEntries ==
    { Entry(".", <<"a", ".", "v", "h", "d">>, "file"),
      Entry("src", <<"B", ".", "V", "H", "D">>, "file"),
      Entry("hdl/rtl", <<"d", ".", "v", "h", "d">>, "dir"),
      Entry("hdl/package", <<"p", ".", "v">>, "file"),
      Entry("rtl/tb", <<"t", "b", ".", "v", "h", "d">>, "file"),
      Entry("test", <<"t", ".", "v", "h", "d", "l">>, "file"),
      Entry("sim", <<"m", ".", "v", "h", "d">>, "file"),
      Entry(".", <<"x", ".", "a", "p", "a">>, "file"),
      Entry("scoped_constraints", <<"a", ".", "t", "c", "l">>, "file"),
      Entry("hdl/constraints", <<"z", ".", "X", "D", "C">>, "file") }

\* a sub-folder shows in its parent folder as a directory entry
SubFolders ==
    { [folder |-> "src", entry |-> Entry(".", <<"s", "r", "c">>, "dir")],
      [folder |-> "rtl", entry |-> Entry(".", <<"r", "t", "l">>, "dir")],
      [folder |-> "sim", entry |-> Entry(".", <<"s", "i", "m">>, "dir")],
      [folder |-> "test", entry |-> Entry(".", <<"t", "e", "s", "t">>, "dir")],
      [folder |-> "rtl/tb", entry |-> Entry("rtl", <<"t", "b">>, "dir")] }

\* the folders a folder lies in
Ancestors(folder) == IF folder = "rtl/tb" THEN {"rtl"} ELSE {}

\* a folder exists when something lies in it or in a folder below it
FolderExists(fsys, folder) ==
    \E e \in fsys : e.dir = folder \/ folder \in Ancestors(e.dir)

\* Path.glob("*"): the entries directly inside a folder, directories included;
\* nothing for a folder that does not exist
Glob(fsys, folder) ==
    {e \in fsys : e.dir = folder}
        \cup {s.entry : s \in {t \in SubFolders :
                                  t.entry.dir = folder /\ FolderExists(fsys, t.folder)}}

\* Path.is_file()
IsFile(e) == e.kind = "file"

----------------------------------------------------------------------------
(* tsfpga/module.py: BaseModule *)

\* HdlFile.file_endings
HdlFileEndings ==
    { <<".", "v", "h", "d">>, <<".", "v", "h", "d", "l">>, <<".", "v">>,
      <<".", "v", "h">>, <<".", "s", "v">>, <<".", "s", "v", "h">> }

\* files_include / files_avoid: None (given = FALSE) or a set of paths
NoFilter == [given |-> FALSE, files |-> {}]

FileSet(paths) == [given |-> TRUE, files |-> paths]

RECURSIVE FilterEntries(_, _, _, _)
\* the same loop without the is_file test
FilterEntriesKeepingDirs(entries, file_endings, files_include, files_avoid) ==
    IF entries = <<>> THEN <<>>
    ELSE LET file == Head(entries)
             rest == FilterEntries(Tail(entries), file_endings, files_include, files_avoid)
         IN  IF ~EndsWithAny(Lower(file.name), file_endings) THEN rest
             ELSE IF files_include.given /\ PathOf(file) \notin files_include.files THEN rest
             ELSE IF files_avoid.given /\ PathOf(file) \in files_avoid.files THEN rest
             ELSE <<PathOf(file)>> \o rest

\* the inner loop of _get_file_list over the entries of one folder
FilterEntries(entries, file_endings, files_include, files_avoid) ==
    IF entries = <<>> THEN <<>>
    ELSE LET file == Head(entries)
             rest == FilterEntries(Tail(entries), file_endings, files_include, files_avoid)
         IN  IF ~IsFile(file) THEN rest
             ELSE IF ~EndsWithAny(Lower(file.name), file_endings) THEN rest
             ELSE IF files_include.given /\ PathOf(file) \notin files_include.files THEN rest
             ELSE IF files_avoid.given /\ PathOf(file) \in files_avoid.files THEN rest
             ELSE <<PathOf(file)>> \o rest

RECURSIVE GetFileList(_, _, _, _, _)
\* BaseModule._get_file_list
GetFileList(fsys, folders, file_endings, files_include, files_avoid) ==
    IF folders = <<>> THEN <<>>
    ELSE FilterEntries(SetToSeq(Glob(fsys, Head(folders))),
                       file_endings, files_include, files_avoid)
             \o GetFileList(fsys, Tail(folders), file_endings, files_include, files_avoid)

\* BaseModule._get_hdl_file_list (an HdlFile is its path)
GetHdlFileList(fsys, folders, files_include, files_avoid) ==
    GetFileList(fsys, folders, HdlFileEndings, files_include, files_avoid)

\* BaseModule._registers is None
NoRegisters == 0

\* bool(self._registers): a RegisterList object is true, None is false
Truthy(regs) == regs # NoRegisters

\* the register state of a module object, with the value the last read returned
RegState(regs, parser, hook, objs, value) ==
    [registers |-> regs, parserCalls |-> parser, hookCalls |-> hook,
     readObjs |-> objs, value |-> value]

\* a read of the registers property that parses on every read
RegistersGetUncached(r, toml) ==
    LET parsed == IF toml THEN r.parserCalls + 1 ELSE r.registers
    IN  RegState(parsed, IF toml THEN r.parserCalls + 1 ELSE r.parserCalls,
                 r.hookCalls + 1, r.readObjs \cup {parsed}, parsed)

\* BaseModule.registers (property); from_toml returns a new object on every call
RegistersGet(r, toml) ==
    IF Truthy(r.registers)
    THEN RegState(r.registers, r.parserCalls, r.hookCalls,
                  r.readObjs \cup {r.registers}, r.registers)
    ELSE LET parsed == IF toml THEN r.parserCalls + 1 ELSE r.registers
         IN  RegState(parsed, IF toml THEN r.parserCalls + 1 ELSE r.parserCalls,
                      r.hookCalls + 1, r.readObjs \cup {parsed}, parsed)

\* the files the four hdl_registers generators write into the module folder
GeneratedFiles ==
    { Entry(".", <<"r", "e", "g", "s", "_", "p", "k", "g", ".", "v", "h", "d">>, "file"),
      Entry(".", <<"r", "e", "c", "o", "r", "d", "_", "p", "k", "g", ".", "v", "h", "d">>, "file"),
      Entry(".", <<"s", "i", "m", "_", "p", "k", "g", ".", "v", "h", "d">>, "file"),
      Entry(".", <<"r", "e", "g", "_", "f", "i", "l", "e", ".", "v", "h", "d">>, "file") }

\* BaseModule.create_regs_vhdl_package: one read for the test, then one read
\* and one create_if_needed per generator
CreateRegsVhdlPackage(r, fsys, toml) ==
    LET r1 == RegistersGet(r, toml)
    IN  IF r1.value # NoRegisters
        THEN LET r2 == RegistersGet(r1, toml)
                 r3 == RegistersGet(r2, toml)
                 r4 == RegistersGet(r3, toml)
                 r5 == RegistersGet(r4, toml)
             IN  [reg |-> r5, fs |-> fsys \cup GeneratedFiles]
        ELSE [reg |-> r1, fs |-> fsys]

\* BaseModule.synthesis_folders
SynthesisFolders == <<".", "src", "rtl", "hdl/rtl", "hdl/package">>

\* BaseModule.sim_folders
SimFolders == <<"sim">>

\* BaseModule.test_folders
TestFolders == <<"test", "rtl/tb">>

\* BaseModule.get_synthesis_files: the register state, the file system and the
\* files returned
GetSynthesisFiles(r, fsys, toml, files_include, files_avoid) ==
    LET made == CreateRegsVhdlPackage(r, fsys, toml)
    IN  [reg |-> made.reg, fs |-> made.fs,
         files |-> GetHdlFileList(made.fs, SynthesisFolders, files_include, files_avoid)]

\* get_simulation_files that gathers the test folders whatever include_tests is
GetSimulationFilesAlwaysTests(r, fsys, toml, include_tests, files_include, files_avoid) ==
    LET test_folders == SimFolders \o TestFolders
        test_files == GetHdlFileList(fsys, test_folders, files_include, files_avoid)
        synth == GetSynthesisFiles(r, fsys, toml, files_include, files_avoid)
    IN  [reg |-> synth.reg, fs |-> synth.fs, files |-> synth.files \o test_files]

\* BaseModule.get_simulation_files
GetSimulationFiles(r, fsys, toml, include_tests, files_include, files_avoid) ==
    LET test_folders == IF include_tests THEN SimFolders \o TestFolders ELSE SimFolders
        test_files == GetHdlFileList(fsys, test_folders, files_include, files_avoid)
        synth == GetSynthesisFiles(r, fsys, toml, files_include, files_avoid)
    IN  [reg |-> synth.reg, fs |-> synth.fs, files |-> synth.files \o test_files]

\* BaseModule.get_documentation_files
GetDocumentationFiles(fsys, files_include, files_avoid) ==
    GetHdlFileList(fsys, SynthesisFolders \o SimFolders, files_include, files_avoid)

\* Constraint.ref of a scoped constraint: the stem of the constraint file
ConstraintRef(constraint_file) == Stem(constraint_file.name)

\* Constraint.validate_scoped_entity: an entity file with the stem of the
\* constraint is among the source files
ValidateScopedEntity(constraint_file, source_files) ==
    \E i \in 1..Len(source_files) :
        Stem(source_files[i].name) = ConstraintRef(constraint_file)

\* the folders get_scoped_constraints searches
ConstraintFolders == <<"scoped_constraints", "entity_constraints", "hdl/constraints">>

\* the file endings get_scoped_constraints searches for
ConstraintEndings == {<<"t", "c", "l">>, <<"x", "d", "c">>}

\* a Constraint object: its file and the two constructor arguments kept
Constraint(file, scoped_constraint, processing_order) ==
    [file |-> file, scoped_constraint |-> scoped_constraint,
     processing_order |-> processing_order]

\* a scoped constraint built with the default processing order
ScopedConstraintNormalOrder(constraint_file) == Constraint(constraint_file, TRUE, "normal")

\* Constraint(constraint_file, scoped_constraint=True, processing_order="late")
ScopedConstraint(constraint_file) == Constraint(constraint_file, TRUE, "late")

RECURSIVE ValidateAll(_, _)
\* the loop of get_scoped_constraints: the constraints built before the first
\* one that fails validation, and whether one failed
ValidateAll(constraint_files, synthesis_files) ==
    IF constraint_files = <<>> THEN [constraints |-> <<>>, failed |-> FALSE]
    ELSE IF ~ValidateScopedEntity(Head(constraint_files), synthesis_files)
         THEN [constraints |-> <<>>, failed |-> TRUE]
         ELSE LET rest == ValidateAll(Tail(constraint_files), synthesis_files)
              IN  [constraints |-> <<ScopedConstraint(Head(constraint_files))>>
                                       \o rest.constraints,
                   failed |-> rest.failed]

\* get_scoped_constraints that validates nothing
GetScopedConstraintsUnvalidated(r, fsys, toml, files_include, files_avoid) ==
    LET constraint_files ==
            GetFileList(fsys, ConstraintFolders, ConstraintEndings, files_include, files_avoid)
    IN  IF constraint_files = <<>>
        THEN [reg |-> r, fs |-> fsys, files |-> <<>>, raised |-> "none", read |-> FALSE]
        ELSE LET synth == GetSynthesisFiles(r, fsys, toml, NoFilter, NoFilter)
             IN  [reg |-> synth.reg, fs |-> synth.fs,
                  files |-> [i \in 1..Len(constraint_files) |->
                                ScopedConstraint(constraint_files[i])],
                  raised |-> "none", read |-> TRUE]

\* BaseModule.get_scoped_constraints: the synthesis files are gathered without
\* the filters, and only when a constraint file was found
GetScopedConstraints(r, fsys, toml, files_include, files_avoid) ==
    LET constraint_files ==
            GetFileList(fsys, ConstraintFolders, ConstraintEndings, files_include, files_avoid)
    IN  IF constraint_files = <<>>
        THEN [reg |-> r, fs |-> fsys, files |-> <<>>, raised |-> "none", read |-> FALSE]
        ELSE LET synth == GetSynthesisFiles(r, fsys, toml, NoFilter, NoFilter)
                 checked == ValidateAll(constraint_files, synth.files)
             IN  [reg |-> synth.reg, fs |-> synth.fs,
                  files |-> IF checked.failed THEN <<>> ELSE checked.constraints,
                  raised |-> IF checked.failed THEN "FileNotFoundError" ELSE "none",
                  read |-> TRUE]

----------------------------------------------------------------------------
(* The module object as a state machine *)

\* the register state of the module object
Reg == RegState(registers, parserCalls, hookCalls, readObjs, registers)

\* the paths the include and avoid sets of the model name
PathA == [dir |-> ".", name |-> <<"a", ".", "v", "h", "d">>]
PathB == [dir |-> "src", name |-> <<"B", ".", "V", "H", "D">>]
PathM == [dir |-> "sim", name |-> <<"m", ".", "v", "h", "d">>]
PathTb == [dir |-> "rtl/tb", name |-> <<"t", "b", ".", "v", "h", "d">>]
PathTcl == [dir |-> "scoped_constraints", name |-> <<"a", ".", "t", "c", "l">>]

\* the (files_include, files_avoid) pairs the calls are drawn from
FilterOptions ==
    { <<NoFilter, NoFilter>>,
      <<FileSet({PathA, PathM, PathTb, PathTcl}), NoFilter>>,
      <<NoFilter, FileSet({PathA, PathTb})>>,
      <<FileSet({PathA, PathM, PathTb, PathTcl}), FileSet({PathA, PathTb})>> }

\* the folder lists _get_file_list is called with directly
FolderLists ==
    { <<".", "src", "hdl/rtl", "ip_cores">>, <<"rtl", "rtl/tb">>,
      <<"scoped_constraints", "hdl/constraints">> }

\* the file endings _get_file_list is called with directly
EndingChoices == { HdlFileEndings, ConstraintEndings, {<<"t", "c", "l">>} }

Call(name, folders, file_endings, include_tests, files_include, files_avoid) ==
    [name |-> name, folders |-> folders, file_endings |-> file_endings,
     include_tests |-> include_tests,
     files_include |-> files_include, files_avoid |-> files_avoid]

NoCall == Call("none", <<>>, {}, FALSE, NoFilter, NoFilter)

\* no module object exists
ModuleQuiet ==
    /\ fs = {}
    /\ tomlExists = FALSE
    /\ registers = NoRegisters
    /\ parserCalls = 0
    /\ hookCalls = 0
    /\ readObjs = {}
    /\ called = FALSE
    /\ calledReading = FALSE
    /\ op = NoCall
    /\ ret = <<>>
    /\ raised = "none"

\* no description is being rendered
MdQuiet ==
    /\ text = <<>>
    /\ html = <<>>
    /\ mdDone = FALSE

\* no netlist build exists
YosysQuiet ==
    /\ projFiles = {}
    /\ vhdlStandard = <<>>
    /\ synthCommand = [given |-> FALSE, command |-> <<>>]
    /\ yosysFound = FALSE
    /\ implementationSubset = [isNone |-> TRUE, files |-> <<>>]
    /\ libraryCompileOrder = <<>>
    /\ subsetCalls = 0
    /\ pc = "idle"
    /\ pending = <<>>
    /\ analyzed = <<>>
    /\ analyzeRet = "none"
    /\ yosysRuns = 0
    /\ yosysExit = -1
    /\ script = <<>>
    /\ outcome = [kind |-> "none", exception |-> "none", success |-> FALSE]
    /\ yop = "none"
    /\ yret = <<>>
    /\ yraised = "none"

\* no simlib object exists
SimlibQuiet ==
    /\ simTree = <<>>
    /\ simPc = "idle"
    /\ simStage = 0
    /\ simTodo = <<>>
    /\ compiled = <<>>
    /\ simRaised = "none"
    /\ simDirs = {}
    /\ vunitLibs = <<>>
    /\ addState = "none"
    /\ ghdlOutput = <<>>
    /\ tagDone = FALSE
    /\ tagRet = <<>>
    /\ tagRaised = "none"
    /\ tagMessage = <<>>

\* get_modules has not been called
DiscoveryQuiet ==
    /\ modTree = {}
    /\ modOp = <<>>
    /\ modules = <<>>

\* add_vunit_config has not been called
VunitQuiet ==
    /\ cfgArgs = <<>>
    /\ cfgDone = FALSE
    /\ addConfigCalls = <<>>

\* BaseModule.__init__ on a module folder tree of at most MaxFiles entries
ModuleInit ==
    /\ fs \in {f \in SUBSET CandidateEntries : Cardinality(f) <= MaxFiles}
    /\ tomlExists \in BOOLEAN
    /\ registers = NoRegisters
    /\ parserCalls = 0
    /\ hookCalls = 0
    /\ readObjs = {}
    /\ called = FALSE
    /\ calledReading = FALSE
    /\ op = NoCall
    /\ ret = <<>>
    /\ raised = "none"
    /\ MdQuiet
    /\ YosysQuiet
    /\ SimlibQuiet
    /\ DiscoveryQuiet
    /\ VunitQuiet

SetReg(r) ==
    /\ registers' = r.registers
    /\ parserCalls' = r.parserCalls
    /\ hookCalls' = r.hookCalls
    /\ readObjs' = r.readObjs

\* a direct call of the static method _get_file_list
CallGetFileList ==
    \E folders \in FolderLists, file_endings \in EndingChoices, filters \in FilterOptions :
        /\ op' = Call("_get_file_list", folders, file_endings, FALSE,
                      filters[1], filters[2])
        /\ ret' = GetFileList(fs, folders, file_endings, filters[1], filters[2])
        /\ raised' = "none"
        /\ UNCHANGED <<fs, tomlExists, registers, parserCalls, hookCalls, readObjs,
                       called, calledReading, mdVars, yosysVars, simlibVars, discoveryVars,
                       vunitVars>>

\* a read of the registers property
ReadRegisters ==
    /\ hookCalls < MaxHookCalls
    /\ SetReg(RegistersGet(Reg, tomlExists))
    /\ called' = TRUE
    /\ calledReading' = TRUE
    /\ op' = Call("registers", <<>>, {}, FALSE, NoFilter, NoFilter)
    /\ ret' = <<>>
    /\ raised' = "none"
    /\ UNCHANGED <<fs, tomlExists, mdVars, yosysVars, simlibVars, discoveryVars, vunitVars>>

\* a call of create_regs_vhdl_package
CallCreateRegsVhdlPackage ==
    /\ hookCalls < MaxHookCalls
    /\ \E made \in {CreateRegsVhdlPackage(Reg, fs, tomlExists)} :
           /\ SetReg(made.reg)
           /\ fs' = made.fs
    /\ called' = TRUE
    /\ calledReading' = TRUE
    /\ op' = Call("create_regs_vhdl_package", <<>>, {}, FALSE, NoFilter, NoFilter)
    /\ ret' = <<>>
    /\ raised' = "none"
    /\ UNCHANGED <<tomlExists, mdVars, yosysVars, simlibVars, discoveryVars, vunitVars>>

\* a call of get_synthesis_files
CallGetSynthesisFiles ==
    \E filters \in FilterOptions :
        /\ hookCalls < MaxHookCalls
        /\ \E got \in {GetSynthesisFiles(Reg, fs, tomlExists, filters[1], filters[2])} :
               /\ SetReg(got.reg)
               /\ fs' = got.fs
               /\ ret' = got.files
        /\ called' = TRUE
        /\ calledReading' = TRUE
        /\ op' = Call("get_synthesis_files", <<>>, {}, FALSE, filters[1], filters[2])
        /\ raised' = "none"
        /\ UNCHANGED <<tomlExists, mdVars, yosysVars, simlibVars, discoveryVars, vunitVars>>

\* a call of get_simulation_files
CallGetSimulationFiles ==
    \E include_tests \in BOOLEAN, filters \in FilterOptions :
        /\ hookCalls < MaxHookCalls
        /\ \E got \in {GetSimulationFiles(Reg, fs, tomlExists, include_tests,
                                             filters[1], filters[2])} :
               /\ SetReg(got.reg)
               /\ fs' = got.fs
               /\ ret' = got.files
        /\ called' = TRUE
        /\ calledReading' = TRUE
        /\ op' = Call("get_simulation_files", <<>>, {}, include_tests,
                      filters[1], filters[2])
        /\ raised' = "none"
        /\ UNCHANGED <<tomlExists, mdVars, yosysVars, simlibVars, discoveryVars, vunitVars>>

\* a call of get_scoped_constraints
CallGetScopedConstraints ==
    \E filters \in FilterOptions :
        /\ hookCalls < MaxHookCalls
        /\ \E got \in {GetScopedConstraints(Reg, fs, tomlExists, filters[1], filters[2])} :
               /\ SetReg(got.reg)
               /\ fs' = got.fs
               /\ ret' = got.files
               /\ raised' = got.raised
               /\ calledReading' = (calledReading \/ got.read)
        /\ called' = TRUE
        /\ op' = Call("get_scoped_constraints", <<>>, {}, FALSE, filters[1], filters[2])
        /\ UNCHANGED <<tomlExists, mdVars, yosysVars, simlibVars, discoveryVars, vunitVars>>

\* a call of get_documentation_files
CallGetDocumentationFiles ==
    \E filters \in FilterOptions :
        /\ op' = Call("get_documentation_files", <<>>, {}, FALSE, filters[1], filters[2])
        /\ ret' = GetDocumentationFiles(fs, filters[1], filters[2])
        /\ raised' = "none"
        /\ UNCHANGED <<fs, tomlExists, registers, parserCalls, hookCalls, readObjs,
                       called, calledReading, mdVars, yosysVars, simlibVars, discoveryVars,
                       vunitVars>>

NextFileList == CallGetFileList

\* _get_file_list applied to every module folder tree
SpecFileList == ModuleInit /\ [][NextFileList]_vars

NextModule ==
    \/ ReadRegisters
    \/ CallCreateRegsVhdlPackage
    \/ CallGetSynthesisFiles
    \/ CallGetSimulationFiles
    \/ CallGetScopedConstraints
    \/ CallGetDocumentationFiles

SpecModule == ModuleInit /\ [][NextModule]_vars

----------------------------------------------------------------------------
(* Claims about the module object *)

\* the files on disk directly inside the given folders that pass the ending
\* filter and the include and avoid sets, as a set of paths
Discovered(folders, file_endings, files_include, files_avoid) ==
    { PathOf(e) : e \in
        { x \in fs : /\ x.dir \in folders
                     /\ x.kind = "file"
                     /\ \E ending \in file_endings : EndsWith(Lower(x.name), ending)
                     /\ (files_include.given => PathOf(x) \in files_include.files)
                     /\ (files_avoid.given => PathOf(x) \notin files_avoid.files) } }

\* C1: _get_file_list returns, as a set, exactly the regular files directly
\* inside the given folders whose lowercased name ends with one of the endings,
\* that are in files_include when given and not in files_avoid when given; a
\* folder that does not exist contributes nothing and raises no error.
C1_FileListExact ==
    op.name = "_get_file_list" =>
        /\ raised = "none"
        /\ SeqToSet(ret) = Discovered(SeqToSet(op.folders), op.file_endings,
                                      op.files_include, op.files_avoid)

\* _get_file_list has returned files from a list of folders one of which does
\* not exist, and has skipped a directory whose name has a matching ending
C1_Witness ==
    /\ op.name = "_get_file_list"
    /\ ret # <<>>
    /\ op.files_include.given
    /\ \E i \in 1..Len(op.folders) : ~FolderExists(fs, op.folders[i])
    /\ \E e \in fs : /\ e.kind = "dir"
                     /\ e.dir \in SeqToSet(op.folders)
                     /\ EndsWithAny(Lower(e.name), op.file_endings)

\* C2 as stated: for a module whose register file exists the parser has run at
\* most once, exactly once if any of get_synthesis_files, get_simulation_files,
\* get_scoped_constraints, create_regs_vhdl_package or a read of registers was
\* called, and every read of registers returned the same object.
C2_ParsedOnceIfAnyCalled ==
    tomlExists =>
        /\ parserCalls <= 1
        /\ (called => parserCalls = 1)
        /\ Cardinality(readObjs) <= 1

\* C2 (amended): for a module whose register file exists the parser has run at
\* most once; exactly once if get_synthesis_files, get_simulation_files,
\* create_regs_vhdl_package or a read of registers was called or
\* get_scoped_constraints found a constraint file, and not at all otherwise;
\* every read of registers returned the same object, the cached one.
C2_ParsedAtMostOnce ==
    tomlExists =>
        /\ parserCalls <= 1
        /\ (calledReading <=> parserCalls = 1)
        /\ Cardinality(readObjs) <= 1
        /\ readObjs \subseteq {registers}

\* a module with a register file whose get_scoped_constraints has found
\* constraints and gone through get_synthesis_files, with the registers parsed
C2_Witness ==
    /\ tomlExists
    /\ op.name = "get_scoped_constraints"
    /\ ret # <<>>
    /\ parserCalls = 1
    /\ readObjs = {registers}
    /\ GeneratedFiles \subseteq fs

\* C3: get_simulation_files(include_tests=True) returns as a set the union of
\* the synthesis files, the sim-folder files and the test-folder files;
\* get_simulation_files(include_tests=False) returns the union of the synthesis
\* files and the sim-folder files and no file of a test folder.
C3_SimulationFiles ==
    op.name = "get_simulation_files" =>
        LET synth == Discovered(SeqToSet(SynthesisFolders), HdlFileEndings,
                                op.files_include, op.files_avoid)
            sim == Discovered(SeqToSet(SimFolders), HdlFileEndings,
                              op.files_include, op.files_avoid)
            test == Discovered(SeqToSet(TestFolders), HdlFileEndings,
                               op.files_include, op.files_avoid)
        IN  /\ op.include_tests => SeqToSet(ret) = synth \cup sim \cup test
            /\ ~op.include_tests =>
                   /\ SeqToSet(ret) = synth \cup sim
                   /\ \A i \in 1..Len(ret) : ret[i].dir \notin SeqToSet(TestFolders)

\* get_simulation_files(include_tests=False) on a module with a synthesis file,
\* a simulation model and a testbench that the filters let through
C3_Witness ==
    /\ op.name = "get_simulation_files"
    /\ ~op.include_tests
    /\ PathA \in SeqToSet(ret)
    /\ PathM \in SeqToSet(ret)
    /\ Discovered(SeqToSet(TestFolders), HdlFileEndings,
                  op.files_include, op.files_avoid) # {}

\* C4: get_scoped_constraints validates every constraint file it finds against
\* the module's synthesis files: if the entity of one of them is not among the
\* synthesis files the call fails and returns no list; if all are, it returns
\* them; when it finds no constraint file it returns an empty list.
C4_ScopedConstraintsValidated ==
    op.name = "get_scoped_constraints" =>
        LET found == Discovered(SeqToSet(ConstraintFolders), ConstraintEndings,
                                op.files_include, op.files_avoid)
            entities == { Stem(p.name) :
                            p \in Discovered(SeqToSet(SynthesisFolders), HdlFileEndings,
                                             NoFilter, NoFilter) }
        IN  /\ found = {} => raised = "none" /\ ret = <<>>
            /\ (\E c \in found : Stem(c.name) \notin entities) =>
                   raised = "FileNotFoundError" /\ ret = <<>>
            /\ (found # {} /\ \A c \in found : Stem(c.name) \in entities) =>
                   raised = "none" /\ {ret[i].file : i \in 1..Len(ret)} = found

\* get_scoped_constraints has failed on a module that holds one constraint with
\* its entity and one without
C4_Witness ==
    /\ op.name = "get_scoped_constraints"
    /\ raised = "FileNotFoundError"
    /\ \E e \in fs : PathOf(e) = PathA
    /\ \E e \in fs : PathOf(e) = PathTcl
    /\ ~op.files_include.given

\* C20: get_documentation_files returns the HDL files of the synthesis and sim
\* folders except testbenches and generated register packages: in every
\* state, also after get_synthesis_files has generated the register packages
\* into the module folder, the result holds no file of a test folder and no
\* generated register package file.
C20_DocumentationFiles ==
    op.name = "get_documentation_files" =>
        /\ \A i \in 1..Len(ret) :
               /\ ret[i].dir \notin SeqToSet(TestFolders)
               /\ ret[i] \notin {PathOf(g) : g \in GeneratedFiles}
        /\ SeqToSet(ret) =
               Discovered(SeqToSet(SynthesisFolders \o SimFolders), HdlFileEndings,
                          op.files_include, op.files_avoid)
                   \ {PathOf(g) : g \in GeneratedFiles}

\* C18: every constraint get_scoped_constraints returns, whatever the include
\* and avoid sets, is marked as a scoped constraint and has the processing
\* order "late".
C18_ScopedConstraintsLate ==
    op.name = "get_scoped_constraints" =>
        \A i \in 1..Len(ret) :
            /\ ret[i].scoped_constraint
            /\ ret[i].processing_order = "late"

\* get_scoped_constraints with an include set has returned the constraint of
\* a module that also holds a constraint the set leaves out
C18_Witness ==
    /\ op.name = "get_scoped_constraints"
    /\ op.files_include.given
    /\ raised = "none"
    /\ Len(ret) = 1
    /\ ret[1].file = PathTcl
    /\ \E e \in fs : e.dir = "hdl/constraints"

\* C22: for a module whose register file exists, over any sequence of reads of
\* the registers property (direct or through the file-list accessors) the hook
\* is called exactly once, in the read that creates the registers from the
\* file, and no read that returns the cached list calls it again; for a module
\* without a register file the hook is still called by a read, and registers
\* stays None under the hook of BaseModule, which creates nothing.
C22_HookOncePerParse ==
    /\ [](IF tomlExists
          THEN /\ hookCalls = parserCalls
               /\ hookCalls <= 1
               /\ calledReading => hookCalls = 1
          ELSE /\ calledReading => hookCalls >= 1
               /\ parserCalls = 0
               /\ registers = NoRegisters
               /\ readObjs \subseteq {NoRegisters})
    /\ [][ /\ Truthy(registers) => hookCalls' = hookCalls
           /\ (tomlExists /\ hookCalls' # hookCalls) =>
                  /\ hookCalls' = hookCalls + 1
                  /\ parserCalls' = parserCalls + 1
                  /\ ~Truthy(registers)
                  /\ Truthy(registers') ]_vars

\* a direct read of registers has returned the cached list after a file-list
\* accessor had created the registers and written the generated packages
C22_Witness ==
    /\ tomlExists
    /\ op.name = "registers"
    /\ GeneratedFiles \subseteq fs
    /\ hookCalls = 1
    /\ parserCalls = 1
    /\ readObjs = {registers}

----------------------------------------------------------------------------
(* tsfpga/register_html_generator.py: the markdown pass *)

\* the text at position i starts with the characters d
StartsWithAt(s, i, d) ==
    /\ i + Len(d) - 1 <= Len(s)
    /\ SubSeq(s, i, i + Len(d) - 1) = d

RECURSIVE FindClose(_, _, _)
\* the lazy (.*?) followed by the delimiter d, tried from position j: the first
\* position at which d closes the match, 0 when a newline or the end of the
\* text comes first
FindClose(s, j, d) ==
    IF j > Len(s) THEN 0
    ELSE IF StartsWithAt(s, j, d) THEN j
    ELSE IF s[j] = "\n" THEN 0
    ELSE FindClose(s, j + 1, d)

RECURSIVE ReSubDelimited(_, _, _, _, _)
\* re.sub of the pattern d(.*?)d by open \g<1> close, from position i on:
\* leftmost matches, none overlapping
ReSubDelimited(s, i, d, open, close) ==
    IF i > Len(s) THEN <<>>
    ELSE LET k == IF StartsWithAt(s, i, d) THEN FindClose(s, i + Len(d), d) ELSE 0
         IN  IF k # 0
             THEN <<open>> \o SubSeq(s, i + Len(d), k - 1) \o <<close>>
                      \o ReSubDelimited(s, k + Len(d), d, open, close)
             ELSE <<s[i]>> \o ReSubDelimited(s, i + 1, d, open, close)

RECURSIVE ReSubEscaped(_, _)
\* re.sub of escaped_literal_pattern, \\(\*|_), by \g<1>
ReSubEscaped(s, i) ==
    IF i > Len(s) THEN <<>>
    ELSE IF s[i] = "\\" /\ i + 1 <= Len(s) /\ s[i + 1] \in {"*", "_"}
         THEN <<s[i + 1]>> \o ReSubEscaped(s, i + 2)
         ELSE <<s[i]>> \o ReSubEscaped(s, i + 1)

\* the delimiters of strong_pattern1, strong_pattern2, em_pattern1, em_pattern2
StrongDelimiter1 == <<"*", "*">>
StrongDelimiter2 == <<"_", "_">>
EmDelimiter1 == <<"*">>
EmDelimiter2 == <<"_">>

\* RegisterHtmlGenerator._markdown_parser; a tag is one element of the result
MarkdownParser(s) ==
    LET t1 == ReSubDelimited(s, 1, StrongDelimiter1, "<b>", "</b>")
        t2 == ReSubDelimited(t1, 1, StrongDelimiter2, "<b>", "</b>")
        t3 == ReSubDelimited(t2, 1, EmDelimiter1, "<em>", "</em>")
        t4 == ReSubDelimited(t3, 1, EmDelimiter2, "<em>", "</em>")
    IN  ReSubEscaped(t4, 1)

\* the characters description texts are drawn from
MdAlphabet == {"*", "_", "\\", "a", "\n"}

RECURSIVE TextsOfLength(_)
TextsOfLength(n) ==
    IF n = 0 THEN {<<>>}
    ELSE {<<c>> \o t : c \in MdAlphabet, t \in TextsOfLength(n - 1)}

\* **bold** and *em* and \*literal\*
ExampleText ==
    <<"*", "*", "b", "o", "l", "d", "*", "*", " ", "a", "n", "d", " ",
      "*", "e", "m", "*", " ", "a", "n", "d", " ",
      "\\", "*", "l", "i", "t", "e", "r", "a", "l", "\\", "*">>

\* <b>bold</b> and <em>em</em> and *literal*
ExampleHtml ==
    <<"<b>", "b", "o", "l", "d", "</b>", " ", "a", "n", "d", " ",
      "<em>", "e", "m", "</em>", " ", "a", "n", "d", " ",
      "*", "l", "i", "t", "e", "r", "a", "l", "*">>

\* the characters of a text without marker or backslash
PlainAlphabet == {"a", "b", "\n"}

RECURSIVE PlainTextsOfLength(_)
PlainTextsOfLength(n) ==
    IF n = 0 THEN {<<>>}
    ELSE {<<c>> \o x : c \in PlainAlphabet, x \in PlainTextsOfLength(n - 1)}

\* the texts without asterisk, underscore or backslash
PlainTexts == UNION {PlainTextsOfLength(n) : n \in 0..MaxPlainLen}

\* a plain text between a pair of markers
Wrapped(d, x) == d \o x \o d

\* the description texts of the model
Texts ==
    UNION {TextsOfLength(n) : n \in 0..MaxTextLen} \cup {ExampleText}
        \cup { Wrapped(d, x) :
                  d \in {StrongDelimiter1, StrongDelimiter2, EmDelimiter1, EmDelimiter2},
                  x \in PlainTexts }

\* a RegisterHtmlGenerator with one description to render
MarkdownInit ==
    /\ text \in Texts
    /\ html = <<>>
    /\ mdDone = FALSE
    /\ ModuleQuiet
    /\ YosysQuiet
    /\ SimlibQuiet
    /\ DiscoveryQuiet
    /\ VunitQuiet

\* _annotate_register / _annotate_bit: the description goes through _markdown_parser
CallMarkdownParser ==
    /\ ~mdDone
    /\ html' = MarkdownParser(text)
    /\ mdDone' = TRUE
    /\ UNCHANGED <<text, moduleVars, yosysVars, simlibVars, discoveryVars, vunitVars>>

NextMarkdown == CallMarkdownParser

SpecMarkdown == MarkdownInit /\ [][NextMarkdown]_vars

\* C7: _markdown_parser turns an escaped marker into the literal character and
\* never treats it as an emphasis delimiter: **bold** and *em* and \*literal\*
\* yields <b>bold</b> and <em>em</em> and *literal*.
C7_EscapedLiteral ==
    (mdDone /\ text = ExampleText) => html = ExampleHtml

\* C19: _markdown_parser applies the strong substitutions before the emphasis
\* substitutions: for every text x without asterisk, underscore or backslash,
\* **x** and __x__ yield <b>x</b> and *x* and _x_ yield <em>x</em>.
C19_StrongBeforeEmphasis ==
    mdDone =>
        \A x \in PlainTexts :
            /\ text \in {<<"*", "*">> \o x \o <<"*", "*">>,
                          <<"_", "_">> \o x \o <<"_", "_">>}
                   => html = <<"<b>">> \o x \o <<"</b>">>
            /\ text \in {<<"*">> \o x \o <<"*">>, <<"_">> \o x \o <<"_">>}
                   => html = <<"<em>">> \o x \o <<"</em>">>

----------------------------------------------------------------------------
(* tsfpga/yosys/project.py: YosysNetlistBuild *)

\* a vunit SourceFile: file.library.name and file.name
SourceFile(library, name) == [library |-> library, name |-> name]

\* self.top
Top == <<"h", "e", "s", "t">>

\* self.top_module.library_name
TopLibrary == "apa"

\* the ghdl_output_path argument
GhdlOutputPath == "ghdl"

\* the source files the modules' get_synthesis_files put into the VUnit project
CandidateSources ==
    { SourceFile("apa", <<"h", "e", "s", "t", ".", "v", "h", "d">>),
      SourceFile("apa", <<"x", "h", "e", "s", "t", ".", "v", "h", "d">>),
      SourceFile("apa", <<"a", "p", "a", ".", "v">>),
      SourceFile("bepa", <<"h", "e", "s", "t", ".", "v", "h", "d">>),
      SourceFile("bepa", <<"p", "k", "g", ".", "v", "h", "d">>),
      SourceFile("bepa", <<"c", "o", "r", "e", ".", "v", "h", "d", "l">>) }

\* VHDLStandard._standard of the standards 1993, 2002, 2008 and 2019
Standards ==
    { <<"1", "9", "9", "3">>, <<"2", "0", "0", "2">>,
      <<"2", "0", "0", "8">>, <<"2", "0", "1", "9">> }

\* synth_command: None, or a command that starts with "synth"
NoCommand == [given |-> FALSE, command |-> <<>>]

SynthCommands == { NoCommand, [given |-> TRUE, command |-> <<"synth", "_xilinx">>] }

NoFile == SourceFile("", <<>>)

\* _get_top_file: VUnit's get_source_file with the pattern "*<top>.vhd" in the
\* library of the top module raises ValueError unless exactly one file matches
GetTopFile(files) ==
    LET top_file_pattern == Top \o <<".", "v", "h", "d">>
        matches == {f \in files : f.library = TopLibrary /\ EndsWith(f.name, top_file_pattern)}
    IN  IF Cardinality(matches) = 1
        THEN [raised |-> "none", file |-> CHOOSE f \in matches : TRUE]
        ELSE [raised |-> "ValueError", file |-> NoFile]

\* what VUnit's get_implementation_subset may return for the top file: the top
\* file last, before it files of the project it depends on, none twice
ImplementationSubsets(files, top_file) ==
    LET others == files \ {top_file}
        orders == UNION {[1..n -> others] : n \in 0..Cardinality(others)}
    IN  { Append(o, top_file) :
            o \in {q \in orders : \A i, j \in 1..Len(q) : i # j => q[i] # q[j]} }

\* the results the external subset computation can give on this project
SubsetChoices(files) ==
    IF GetTopFile(files).raised = "none"
    THEN ImplementationSubsets(files, GetTopFile(files).file)
    ELSE {<<>>}

RECURSIVE InsertLibrariesLast(_, _, _)
\* the same loop with append(...) in place of insert(0, ...)
InsertLibrariesLast(subset, i, order) ==
    IF i = 0 THEN order
    ELSE InsertLibrariesLast(subset, i - 1,
                             IF subset[i].library \in SeqToSet(order) THEN order
                             ELSE order \o <<subset[i].library>>)

RECURSIVE InsertLibraries(_, _, _)
\* the loop over reversed(self._implementation_subset), from file i down
InsertLibraries(subset, i, order) ==
    IF i = 0 THEN order
    ELSE InsertLibraries(subset, i - 1,
                         IF subset[i].library \in SeqToSet(order) THEN order
                         ELSE <<subset[i].library>> \o order)

\* the cache of a netlist build
Cache(subset, order, calls) ==
    [implementationSubset |-> subset, libraryCompileOrder |-> order, subsetCalls |-> calls]

Y == Cache(implementationSubset, libraryCompileOrder, subsetCalls)

\* _get_required_synthesis_files that computes the subset on every call
GetRequiredSynthesisFilesUncached(y, files, computed) ==
    LET top == GetTopFile(files)
    IN  IF top.raised # "none"
        THEN [y |-> y, raised |-> top.raised, files |-> <<>>]
        ELSE [y |-> Cache([isNone |-> FALSE, files |-> computed],
                          InsertLibraries(computed, Len(computed), y.libraryCompileOrder),
                          y.subsetCalls + 1),
              raised |-> "none", files |-> computed]

\* _get_required_synthesis_files; computed is what get_implementation_subset
\* returns if it is called
GetRequiredSynthesisFiles(y, files, computed) ==
    IF y.implementationSubset.isNone
    THEN LET top == GetTopFile(files)
         IN  IF top.raised # "none"
             THEN [y |-> y, raised |-> top.raised, files |-> <<>>]
             ELSE [y |-> Cache([isNone |-> FALSE, files |-> computed],
                               InsertLibraries(computed, Len(computed), y.libraryCompileOrder),
                               y.subsetCalls + 1),
                   raised |-> "none", files |-> computed]
    ELSE [y |-> y, raised |-> "none", files |-> y.implementationSubset.files]

\* file.name.endswith(".vhd")
IsVhdlFile(file) == EndsWith(file.name, <<".", "v", "h", "d">>)

\* file.name.endswith(".v")
IsVerilogFile(file) == EndsWith(file.name, <<".", "v">>)

\* _get_vhdl_files
GetVhdlFiles(y, files, computed) ==
    LET required == GetRequiredSynthesisFiles(y, files, computed)
    IN  [y |-> required.y, raised |-> required.raised,
         files |-> SelectSeq(required.files, IsVhdlFile)]

\* _get_verilog_files
GetVerilogFiles(y, files, computed) ==
    LET required == GetRequiredSynthesisFiles(y, files, computed)
    IN  [y |-> required.y, raised |-> required.raised,
         files |-> SelectSeq(required.files, IsVerilogFile)]

\* _get_synth_command
GetSynthCommand(synth_command) ==
    (IF ~synth_command.given THEN <<"synth">> ELSE synth_command.command)
        \o <<" -top ">> \o Top

\* _get_ghdl_standard_option: "--std=" + self._vhdl_standard._standard[2:]
GetGhdlStandardOption(standard) == <<"--std=">> \o SubSeq(standard, 3, Len(standard))

\* Path(file.name).resolve().absolute().as_posix(): the module folder is named
\* like the library
FilePath(file) == <<"/", file.library, "/">> \o file.name

RECURSIVE Join(_, _)
\* separator.join(clauses)
Join(clauses, separator) ==
    IF clauses = <<>> THEN <<>>
    ELSE IF Len(clauses) = 1 THEN clauses[1]
    ELSE clauses[1] \o <<separator>> \o Join(Tail(clauses), separator)

\* _create_script
CreateScript(y, files, computed, standard, synth_command, ghdl_output_path) ==
    LET top == GetTopFile(files)
        verilog == GetVerilogFiles(y, files, computed)
        load == <<"ghdl ">> \o GetGhdlStandardOption(standard)
                    \o <<" --work=", top.file.library, " --workdir=", ghdl_output_path,
                         " -P=", ghdl_output_path>>
        reads == [i \in 1..Len(verilog.files) |->
                     <<"read_verilog ">> \o FilePath(verilog.files[i])]
    IN  IF top.raised # "none"
        THEN [y |-> y, raised |-> top.raised, script |-> <<>>]
        ELSE [y |-> verilog.y, raised |-> "none",
              script |-> Join(<<load>> \o reads \o <<GetSynthCommand(synth_command)>>, "; ")]

\* _ghdl_analyze_file: one GHDL process on the file with --work=<its library>,
\* as the record of that invocation
GhdlAnalyzeFile(file, returncode) ==
    [file |-> file, work |-> file.library, returncode |-> returncode]

\* _ghdl_analyze never leaves its loop early
AnalysisNeverAborts(success) == FALSE

\* _ghdl_analyze: "if not success: return success"
AnalysisAborts(success) == ~success

\* build: "if not success: raise RuntimeError"
BuildRaises(success) == ~success

----------------------------------------------------------------------------
(* The netlist build as a state machine *)

\* the exit codes of a subprocess: zero, and one for every non-zero code
ExitCodes == {0, 1}

Outcome(kind, exception, success) ==
    [kind |-> kind, exception |-> exception, success |-> success]

configVars == <<projFiles, vhdlStandard, synthCommand, yosysFound>>

\* YosysNetlistBuild.__init__ on a project of at most MaxProjectFiles source files
YosysInit ==
    /\ projFiles \in {f \in SUBSET CandidateSources : Cardinality(f) <= MaxProjectFiles}
    /\ vhdlStandard \in Standards
    /\ synthCommand \in SynthCommands
    /\ yosysFound \in BOOLEAN
    /\ implementationSubset = [isNone |-> TRUE, files |-> <<>>]
    /\ libraryCompileOrder = <<>>
    /\ subsetCalls = 0
    /\ pc = "idle"
    /\ pending = <<>>
    /\ analyzed = <<>>
    /\ analyzeRet = "none"
    /\ yosysRuns = 0
    /\ yosysExit = -1
    /\ script = <<>>
    /\ outcome = Outcome("none", "none", FALSE)
    /\ yop = "none"
    /\ yret = <<>>
    /\ yraised = "none"
    /\ ModuleQuiet
    /\ MdQuiet
    /\ SimlibQuiet
    /\ DiscoveryQuiet
    /\ VunitQuiet

\* what get_implementation_subset can return in this state; it is not called
\* once the subset is cached
ComputedChoices ==
    IF implementationSubset.isNone THEN SubsetChoices(projFiles)
    ELSE {implementationSubset.files}

SetY(y) ==
    /\ implementationSubset' = y.implementationSubset
    /\ libraryCompileOrder' = y.libraryCompileOrder
    /\ subsetCalls' = y.subsetCalls

\* a direct call of _get_required_synthesis_files
CallGetRequiredSynthesisFiles ==
    /\ pc = "idle"
    /\ \E computed \in ComputedChoices :
        \E got \in {GetRequiredSynthesisFiles(Y, projFiles, computed)} :
            /\ SetY(got.y)
            /\ yret' = got.files
            /\ yraised' = got.raised
    /\ yop' = "_get_required_synthesis_files"
    /\ UNCHANGED <<configVars, pc, pending, analyzed, analyzeRet, yosysRuns, yosysExit,
                   script, outcome, moduleVars, mdVars,
                   simlibVars, discoveryVars, vunitVars>>

\* a direct call of _get_vhdl_files
CallGetVhdlFiles ==
    /\ pc = "idle"
    /\ \E computed \in ComputedChoices :
        \E got \in {GetVhdlFiles(Y, projFiles, computed)} :
            /\ SetY(got.y)
            /\ yret' = got.files
            /\ yraised' = got.raised
    /\ yop' = "_get_vhdl_files"
    /\ UNCHANGED <<configVars, pc, pending, analyzed, analyzeRet, yosysRuns, yosysExit,
                   script, outcome, moduleVars, mdVars,
                   simlibVars, discoveryVars, vunitVars>>

\* a direct call of _get_verilog_files
CallGetVerilogFiles ==
    /\ pc = "idle"
    /\ \E computed \in ComputedChoices :
        \E got \in {GetVerilogFiles(Y, projFiles, computed)} :
            /\ SetY(got.y)
            /\ yret' = got.files
            /\ yraised' = got.raised
    /\ yop' = "_get_verilog_files"
    /\ UNCHANGED <<configVars, pc, pending, analyzed, analyzeRet, yosysRuns, yosysExit,
                   script, outcome, moduleVars, mdVars,
                   simlibVars, discoveryVars, vunitVars>>

\* a direct call of _create_script
CallCreateScript ==
    /\ pc = "idle"
    /\ \E computed \in ComputedChoices :
        \E made \in {CreateScript(Y, projFiles, computed, vhdlStandard, synthCommand,
                                  GhdlOutputPath)} :
            /\ SetY(made.y)
            /\ script' = made.script
            /\ yraised' = made.raised
    /\ yop' = "_create_script"
    /\ yret' = <<>>
    /\ UNCHANGED <<configVars, pc, pending, analyzed, analyzeRet, yosysRuns, yosysExit,
                   outcome, moduleVars, mdVars,
                   simlibVars, discoveryVars, vunitVars>>

\* build() ends
BuildEnds(o) ==
    /\ pc' = "idle"
    /\ pending' = <<>>
    /\ outcome' = o

\* build() from the return of _ghdl_analyze on: raise, or _run_yosys up to the
\* start of the Yosys process
AfterAnalyze(y, success, computed) ==
    IF BuildRaises(success)
    THEN /\ SetY(y)
         /\ BuildEnds(Outcome("raised", "RuntimeError", FALSE))
         /\ UNCHANGED <<script, yosysRuns>>
    ELSE \E made \in {CreateScript(y, projFiles, computed, vhdlStandard, synthCommand,
                                   GhdlOutputPath)} :
            /\ SetY(made.y)
            /\ IF made.raised # "none"
               THEN /\ BuildEnds(Outcome("raised", made.raised, FALSE))
                    /\ UNCHANGED <<script, yosysRuns>>
               ELSE /\ script' = made.script
                    /\ IF ~yosysFound
                       THEN /\ BuildEnds(Outcome("raised", "FileNotFoundError", FALSE))
                            /\ UNCHANGED yosysRuns
                       ELSE /\ pc' = "yosys"
                            /\ pending' = <<>>
                            /\ yosysRuns' = yosysRuns + 1
                            /\ outcome' = Outcome("none", "none", FALSE)

\* build() up to the start of the first GHDL process
BuildStart ==
    /\ pc = "idle"
    /\ \E computed \in ComputedChoices :
        \E vhdl \in {GetVhdlFiles(Y, projFiles, computed)} :
            /\ SetY(vhdl.y)
            /\ IF vhdl.raised # "none"
               THEN /\ BuildEnds(Outcome("raised", vhdl.raised, FALSE))
                    /\ analyzeRet' = "none"
               ELSE IF vhdl.files = <<>>
               THEN /\ BuildEnds(Outcome("raised", "RuntimeError", FALSE))
                    /\ analyzeRet' = "False"
               ELSE /\ pc' = "ghdl"
                    /\ pending' = vhdl.files
                    /\ outcome' = Outcome("none", "none", FALSE)
                    /\ analyzeRet' = "none"
    /\ analyzed' = <<>>
    /\ yosysRuns' = 0
    /\ yosysExit' = -1
    /\ yop' = "build"
    /\ yret' = <<>>
    /\ yraised' = "none"
    /\ UNCHANGED <<configVars, script, moduleVars, mdVars,
                   simlibVars, discoveryVars, vunitVars>>

\* the GHDL process of _ghdl_analyze_file exits; build() runs on to the start
\* of the next process or to its end
GhdlExit ==
    /\ pc = "ghdl"
    /\ \E returncode \in ExitCodes, computed \in ComputedChoices :
        /\ analyzed' = Append(analyzed, GhdlAnalyzeFile(Head(pending), returncode))
        /\ IF ~AnalysisAborts(returncode = 0) /\ Tail(pending) # <<>>
           THEN /\ pc' = "ghdl"
                /\ pending' = Tail(pending)
                /\ UNCHANGED <<implementationSubset, libraryCompileOrder, subsetCalls,
                               analyzeRet, script, yosysRuns, outcome>>
           ELSE /\ analyzeRet' = (IF returncode = 0 THEN "True" ELSE "False")
                /\ AfterAnalyze(Y, returncode = 0, computed)
    /\ UNCHANGED <<configVars, yosysExit, yop, yret, yraised, moduleVars, mdVars,
                   simlibVars, discoveryVars, vunitVars>>

\* the Yosys process of _run_yosys exits and build() returns the BuildResult
YosysExit ==
    /\ pc = "yosys"
    /\ \E returncode \in ExitCodes :
        /\ yosysExit' = returncode
        /\ outcome' = Outcome("returned", "none", returncode = 0)
    /\ pc' = "idle"
    /\ UNCHANGED <<configVars, implementationSubset, libraryCompileOrder, subsetCalls,
                   pending, analyzed, analyzeRet, yosysRuns, script, yop, yret, yraised,
                   moduleVars, mdVars,
                   simlibVars, discoveryVars, vunitVars>>

NextYosys ==
    \/ CallGetRequiredSynthesisFiles
    \/ CallGetVhdlFiles
    \/ CallGetVerilogFiles
    \/ CallCreateScript
    \/ BuildStart
    \/ GhdlExit
    \/ YosysExit

SpecYosys == YosysInit /\ [][NextYosys]_vars

----------------------------------------------------------------------------
(* Claims about the netlist build *)

\* the GHDL load directive, then the synthesis command with -top appended
ExpectedLoadAndSynth ==
    <<"ghdl ", "--std=", vhdlStandard[3], vhdlStandard[4], " --work=", TopLibrary,
      " --workdir=", GhdlOutputPath, " -P=", GhdlOutputPath, "; ">>
        \o (IF synthCommand.given THEN synthCommand.command ELSE <<"synth">>)
        \o <<" -top ">> \o Top

\* C5: for a build with a single VHDL top-level file and no Verilog file in the
\* required subset, for every VHDL standard and synth_command, _create_script
\* returns exactly "ghdl --std=<last two digits> --work=<top library>
\* --workdir=<ghdl path> -P=<ghdl path>; <synth_command or synth> -top <top>; sta".
C5_ScriptEndsWithSta ==
    ( /\ yop = "_create_script"
      /\ yraised = "none"
      /\ \A i \in 1..Len(implementationSubset.files) :
             ~IsVerilogFile(implementationSubset.files[i]) )
        => script = ExpectedLoadAndSynth \o <<"; ", "sta">>

\* C6: when no module contains a file for the top-level entity,
\* _get_required_synthesis_files fails with ValueError and returns no list; the
\* cached subset is still unset and the library compile order still empty.
C6_NoTopRaises ==
    ( /\ yop = "_get_required_synthesis_files"
      /\ \A f \in projFiles :
             ~(f.library = TopLibrary /\ f.name = Top \o <<".", "v", "h", "d">>) )
        => /\ yraised = "ValueError"
           /\ yret = <<>>
           /\ implementationSubset.isNone
           /\ libraryCompileOrder = <<>>
           /\ subsetCalls = 0

\* C8: over any sequence of calls the implementation subset is computed at
\* most once; once computed, the subset, the library compile order and the
\* list every later call returns stay the same.
C8_SubsetComputedOnce ==
    [][ /\ subsetCalls' <= 1
        /\ ~implementationSubset.isNone =>
               /\ implementationSubset' = implementationSubset
               /\ libraryCompileOrder' = libraryCompileOrder
               /\ subsetCalls' = subsetCalls
               /\ (yop' = "_get_required_synthesis_files" /\ yret' # yret) =>
                      yret' = implementationSubset.files ]_vars

\* a build has run to the end of Yosys after a direct call, on a subset of two
\* libraries, with one subset computation
C8_Witness ==
    /\ outcome.kind = "returned"
    /\ subsetCalls = 1
    /\ Len(libraryCompileOrder) = 2
    /\ Len(implementationSubset.files) = 3
    /\ script # <<>>

C10_FailureIsReturned ==
    ( /\ yop = "build"
      /\ pc = "idle"
      /\ \/ \E k \in 1..Len(analyzed) : analyzed[k].returncode # 0
         \/ yosysExit > 0 )
        => /\ outcome.kind = "returned"
           /\ outcome.success = FALSE

\* C11: the netlist build walks its stages one way. The VUnit project of the
\* constructor is never assembled again; within a build() the subset is
\* resolved before the first GHDL analysis starts and is not resolved again
\* later; files are analyzed only in the GHDL stage; the script is created and
\* Yosys started only when that stage is left; once Yosys runs no file is
\* analyzed and no script created; Yosys is started at most once per build().
C11_StagesOneWay ==
    [][ /\ projFiles' = projFiles
        /\ (pc' = "ghdl") => ~implementationSubset'.isNone
        /\ (pc # "idle") =>
               UNCHANGED <<implementationSubset, libraryCompileOrder, subsetCalls>>
        /\ (analyzed' # analyzed) => (pc = "ghdl" \/ analyzed' = <<>>)
        /\ (pc = "ghdl" /\ pc' = "ghdl") => UNCHANGED <<script, yosysRuns>>
        /\ (pc = "yosys") => (pc' = "idle" /\ UNCHANGED <<analyzed, script, yosysRuns>>)
        /\ (yosysRuns' > yosysRuns) => (pc = "ghdl" /\ pc' = "yosys" /\ pending' = <<>>)
        /\ yosysRuns' <= 1 ]_vars

\* a build() has run through two GHDL analyses and one Yosys process
\* and returned, the subset having been resolved once
C11_Witness ==
    /\ yop = "build"
    /\ pc = "idle"
    /\ outcome.kind = "returned"
    /\ outcome.success
    /\ Len(analyzed) = 2
    /\ yosysRuns = 1
    /\ subsetCalls = 1
    /\ Len(script) > 0

\* C12: when the file of the top-level entity is missing from the project,
\* build() raises before any GHDL or Yosys process has been started.
C12_MissingTopRaisesEarly ==
    ( /\ yop = "build"
      /\ \A f \in projFiles :
             ~(f.library = TopLibrary /\ f.name = Top \o <<".", "v", "h", "d">>) )
        => /\ pc = "idle"
           /\ outcome.kind = "raised"
           /\ analyzed = <<>>
           /\ yosysRuns = 0

RECURSIVE ExpectedReads(_)
\* one "read_verilog <absolute path>; " for each file of the list whose name
\* ends in .v, in the order of the list
ExpectedReads(files) ==
    IF files = <<>> THEN <<>>
    ELSE (IF EndsWith(Head(files).name, <<".", "v">>)
          THEN <<"read_verilog ", "/", Head(files).library, "/">> \o Head(files).name
                   \o <<"; ">>
          ELSE <<>>)
             \o ExpectedReads(Tail(files))

\* the GHDL load directive, the read_verilog clauses of the required subset,
\* then the synthesis command with -top appended
ExpectedLoadReadSynth ==
    <<"ghdl ", "--std=", vhdlStandard[3], vhdlStandard[4], " --work=", TopLibrary,
      " --workdir=", GhdlOutputPath, " -P=", GhdlOutputPath, "; ">>
        \o ExpectedReads(implementationSubset.files)
        \o (IF synthCommand.given THEN synthCommand.command ELSE <<"synth">>)
        \o <<" -top ">> \o Top

\* C17: for a build whose required subset contains Verilog files, _create_script
\* returns the GHDL load directive for the top-level library, one
\* "read_verilog <absolute path>" for each Verilog file of the subset in subset
\* order and none for other files, the synthesis command with -top <top>, and
\* the static-timing-analysis directive "sta", joined by "; ".
C17_ScriptReadsVerilog ==
    ( /\ yop = "_create_script"
      /\ yraised = "none"
      /\ \E i \in 1..Len(implementationSubset.files) :
             IsVerilogFile(implementationSubset.files[i]) )
        => script = ExpectedLoadReadSynth \o <<"; ", "sta">>

\* C21: the build partitions the required subset by source language: every
\* file of the subset _get_required_synthesis_files returns is in exactly one
\* of the lists of _get_vhdl_files and _get_verilog_files, whatever its HDL
\* file ending or letter case, so none is left out of both.
C21_LanguagePartition ==
    ( /\ yop \in {"_get_vhdl_files", "_get_verilog_files"}
      /\ yraised = "none" )
        => LET subset == implementationSubset.files
               vhdl == IF yop = "_get_vhdl_files" THEN yret
                       ELSE GetVhdlFiles(Y, projFiles, subset).files
               verilog == IF yop = "_get_verilog_files" THEN yret
                          ELSE GetVerilogFiles(Y, projFiles, subset).files
           IN  \A i \in 1..Len(subset) :
                   (subset[i] \in SeqToSet(vhdl)) # (subset[i] \in SeqToSet(verilog))

\* the position in the subset of the last file of a library
LastPosition(library) ==
    Max({i \in 1..Len(implementationSubset.files) :
            implementationSubset.files[i].library = library})

\* C26: once the implementation subset is resolved, _library_compile_order
\* holds each library name of the subset's files exactly once and no other
\* name, ordered by the position of the library's last file in the subset, a
\* library whose last file comes earlier being listed earlier; before the
\* subset is resolved the list is empty.
C26_LibraryCompileOrder ==
    IF implementationSubset.isNone THEN libraryCompileOrder = <<>>
    ELSE /\ SeqToSet(libraryCompileOrder)
                = {implementationSubset.files[i].library :
                       i \in 1..Len(implementationSubset.files)}
         /\ \A i, j \in 1..Len(libraryCompileOrder) :
                i < j => /\ libraryCompileOrder[i] # libraryCompileOrder[j]
                         /\ LastPosition(libraryCompileOrder[i])
                                < LastPosition(libraryCompileOrder[j])

\* the subset was resolved to a file of the top library, a file of another
\* library and the top file, and the other library is listed first
C26_Witness ==
    /\ ~implementationSubset.isNone
    /\ Len(implementationSubset.files) = 3
    /\ implementationSubset.files[1].library = "apa"
    /\ implementationSubset.files[2].library = "bepa"
    /\ implementationSubset.files[3].library = "apa"
    /\ libraryCompileOrder = <<"bepa", "apa">>

\* the VHDL files of a file list, in list order: the files whose lower-cased
\* name has a VHDL file ending
VhdlSources(files) ==
    SelectSeq(files,
              LAMBDA f : EndsWithAny(Lower(f.name),
                                     {<<".", "v", "h", "d">>, <<".", "v", "h", "d", "l">>}))

\* C23: _ghdl_analyze invokes GHDL on the VHDL files of the required subset one
\* at a time in subset order, each with the work library of the file's own
\* library; it stops at the first file whose analysis exits non-zero and
\* analyzes no later file; it returns True exactly when every VHDL file of the
\* subset was analyzed with exit code zero.
C23_GhdlAnalyzeInOrder ==
    (yop = "build" /\ ~implementationSubset.isNone) =>
        LET vhdl == VhdlSources(implementationSubset.files)
        IN  /\ Len(analyzed) <= Len(vhdl)
            /\ \A k \in 1..Len(analyzed) :
                   /\ analyzed[k].file = vhdl[k]
                   /\ analyzed[k].work = vhdl[k].library
                   /\ k < Len(analyzed) => analyzed[k].returncode = 0
            /\ (pc = "ghdl") =>
                   /\ analyzeRet = "none"
                   /\ \A k \in 1..Len(analyzed) : analyzed[k].returncode = 0
            /\ (pc # "ghdl") =>
                   (analyzeRet = "True" <=>
                       /\ Len(analyzed) = Len(vhdl)
                       /\ \A k \in 1..Len(analyzed) : analyzed[k].returncode = 0)

----------------------------------------------------------------------------
(* tsfpga/vivado_simlib_ghdl.py: VivadoSimlibGhdl *)

\* VivadoSimlibGhdl._libraries
Libraries == <<"unisim", "secureip", "unimacro", "unifast">>

\* a VHDL file of the Vivado install: the folder below data/vhdl/src, how the
\* code comes by it (named in the code, listed in vhdl_analyze_order, or
\* found by glob) and its number among the files of that kind
VhdFile(dir, kind, name) == [dir |-> dir, kind |-> kind, name |-> name]

\* all sequences without repetition over a set
Orders(S) ==
    { q \in UNION {[1..n -> S] : n \in 0..Cardinality(S)} :
        \A i, j \in 1..Len(q) : i # j => q[i] # q[j] }

\* all orders of a whole set: what Path.glob may yield
GlobOrders(S) == { q \in Orders(S) : Len(q) = Cardinality(S) }

\* the files of a manifest or folder, from the numbers that name them
FilesOf(dir, kind, names) == [i \in 1..Len(names) |-> VhdFile(dir, kind, names[i])]

\* the Vivado installs of the model: the lines of the three vhdl_analyze_order
\* manifests, the .vhd files of the two globbed folders, and the listed files
\* that do not exist
SimTrees ==
    { [primitive |-> primitive, unimacro |-> unimacro, unifast |-> unifast,
       retarget |-> retarget, secureip |-> secureip, missing |-> missing] :
        primitive \in Orders(1..MaxManifestLen),
        unimacro \in {<<>>, <<1>>, <<2, 1>>},
        unifast \in {<<>>, <<1>>},
        retarget \in SUBSET {1},
        secureip \in SUBSET {1, 2},
        missing \in { {}, {VhdFile("unisims/primitive", "listed", 1)},
                      {VhdFile("unimacro", "listed", 1)},
                      {VhdFile("unifast/primitive", "listed", 1)} } }

\* the loops of _compile in the order it runs them
LastStage == 7

\* the library whose _compile_<library> method a loop belongs to
StageLibrary(stage) ==
    IF stage <= 3 THEN "unisim"
    ELSE IF stage = 4 THEN "secureip"
    ELSE IF stage <= 6 THEN "unimacro"
    ELSE "unifast"

\* the file sequences a loop can go through; a glob has no defined order
StageFiles(tree, stage) ==
    IF stage = 1 THEN {FilesOf("unisims", "package", <<1, 2, 3, 4>>)}
    ELSE IF stage = 2 THEN {FilesOf("unisims/primitive", "listed", tree.primitive)}
    ELSE IF stage = 3
         THEN {FilesOf("unisims/retarget", "globbed", q) : q \in GlobOrders(tree.retarget)}
    ELSE IF stage = 4
         THEN {FilesOf("unisims/secureip", "globbed", q) : q \in GlobOrders(tree.secureip)}
    ELSE IF stage = 5 THEN {FilesOf("unimacro", "package", <<1>>)}
    ELSE IF stage = 6 THEN {FilesOf("unimacro", "listed", tree.unimacro)}
    ELSE {FilesOf("unifast/primitive", "listed", tree.unifast)}

RECURSIVE Advance(_, _)
\* _compile runs on from the start of a loop to the next file there is: the
\* loop it is then in and the files of that loop, or past the last loop
Advance(tree, stage) ==
    IF stage > LastStage THEN {[stage |-> stage, todo |-> <<>>]}
    ELSE UNION { IF q = <<>> THEN Advance(tree, stage + 1)
                 ELSE {[stage |-> stage, todo |-> q]} : q \in StageFiles(tree, stage) }

\* "assert vhd_file.exists(), vhd_file" of the manifest loops; the asserts on
\* the package files test the bound method and never fail
AssertFails(tree, file) == file.kind = "listed" /\ file \in tree.missing

\* self._output_path: Path(output_path) / self._get_version_tag()
SimlibOutputPath == <<"output_path", "version_tag">>

\* workdir = self._output_path / library_name / "v08"
Workdir(library_name) == SimlibOutputPath \o <<library_name, "v08">>

\* create_directory(workdir, empty=False): the directory exists afterwards
CreateDirectory(dirs, directory) == dirs \cup {directory}

\* _compile_ghdl_file: one GHDL process on the file with --workdir=<workdir>
\* and --work=<library_name>, as the record of that invocation
CompileGhdlFile(vhd_file, library_name, returncode) ==
    [file |-> vhd_file, library |-> library_name, workdir |-> Workdir(library_name),
     returncode |-> returncode]

RECURSIVE AddToVunitProject(_, _, _)
\* _add_to_vunit_project, from library i of self._libraries on
AddToVunitProject(dirs, i, added) ==
    IF i > Len(Libraries) THEN [raised |-> "none", libraries |-> added]
    ELSE LET library_path == SimlibOutputPath \o <<Libraries[i], "v08">>
         IN  IF library_path \notin dirs
             THEN [raised |-> "AssertionError", libraries |-> added]
             ELSE AddToVunitProject(dirs, i + 1,
                                    Append(added, [library |-> Libraries[i],
                                                   path |-> library_path]))

\* subprocess.call in place of check_call: the exit code is not looked at
CallNeverRaises(returncode) == FALSE

\* subprocess.check_call raises CalledProcessError on a non-zero exit code
CheckCallRaises(returncode) == returncode # 0

----------------------------------------------------------------------------
(* The simlib compilation as a state machine *)

\* a VivadoSimlibGhdl on one of the Vivado installs
SimlibInit ==
    /\ simTree \in SimTrees
    /\ simPc = "idle"
    /\ simStage = 0
    /\ simTodo = <<>>
    /\ compiled = <<>>
    /\ simRaised = "none"
    /\ simDirs = {}
    /\ vunitLibs = <<>>
    /\ addState = "none"
    /\ ghdlOutput = <<>>
    /\ tagDone = FALSE
    /\ tagRet = <<>>
    /\ tagRaised = "none"
    /\ tagMessage = <<>>
    /\ ModuleQuiet
    /\ MdQuiet
    /\ YosysQuiet
    /\ DiscoveryQuiet
    /\ VunitQuiet

\* _compile has reached the next file, or the end; _compile_ghdl_file creates
\* the work directory before it starts the GHDL process
Reach(c) ==
    /\ simStage' = c.stage
    /\ simTodo' = c.todo
    /\ IF c.todo = <<>>
       THEN simPc' = "done" /\ simRaised' = "none" /\ UNCHANGED simDirs
       ELSE IF AssertFails(simTree, Head(c.todo))
       THEN simPc' = "raised" /\ simRaised' = "AssertionError" /\ UNCHANGED simDirs
       ELSE /\ simPc' = "ghdl"
            /\ simRaised' = "none"
            /\ simDirs' = CreateDirectory(simDirs, Workdir(StageLibrary(c.stage)))

\* _compile up to the start of the first GHDL process
CompileStart ==
    /\ simPc = "idle"
    /\ \E c \in Advance(simTree, 1) : Reach(c)
    /\ compiled' = <<>>
    /\ UNCHANGED <<simTree, vunitLibs, addState,
                   ghdlOutput, tagDone, tagRet, tagRaised, tagMessage,
                   moduleVars, mdVars, yosysVars, discoveryVars, vunitVars>>

\* the GHDL process of _compile_ghdl_file exits; _compile runs on to the start
\* of the next process or to its end
CompileGhdlExit ==
    /\ simPc = "ghdl"
    /\ \E returncode \in ExitCodes :
        /\ compiled' = Append(compiled, CompileGhdlFile(Head(simTodo),
                                                        StageLibrary(simStage), returncode))
        /\ IF CheckCallRaises(returncode)
           THEN /\ simPc' = "raised"
                /\ simRaised' = "CalledProcessError"
                /\ UNCHANGED <<simStage, simTodo, simDirs>>
           ELSE IF Tail(simTodo) # <<>>
           THEN Reach([stage |-> simStage, todo |-> Tail(simTodo)])
           ELSE \E c \in Advance(simTree, simStage + 1) : Reach(c)
    /\ UNCHANGED <<simTree, vunitLibs, addState,
                   ghdlOutput, tagDone, tagRet, tagRaised, tagMessage,
                   moduleVars, mdVars, yosysVars, discoveryVars, vunitVars>>

\* a call of _add_to_vunit_project while no compile is running
CallAddToVunitProject ==
    /\ simPc # "ghdl"
    /\ addState = "none"
    /\ \E added \in {AddToVunitProject(simDirs, 1, vunitLibs)} :
        /\ vunitLibs' = added.libraries
        /\ addState' = (IF added.raised = "none" THEN "returned" ELSE "raised")
    /\ UNCHANGED <<simTree, simPc, simStage, simTodo, compiled, simRaised, simDirs,
                   ghdlOutput, tagDone, tagRet, tagRaised, tagMessage,
                   moduleVars, mdVars, yosysVars, discoveryVars, vunitVars>>

NextSimlib ==
    \/ CompileStart
    \/ CompileGhdlExit
    \/ CallAddToVunitProject

SpecSimlib == SimlibInit /\ [][NextSimlib]_vars

----------------------------------------------------------------------------
(* Claims about the simlib compilation *)

\* the position of a library in the fixed order
LibraryIndex(library) == CHOOSE i \in 1..Len(Libraries) : Libraries[i] = library

\* the numbers of the files of a manifest passed to GHDL, in the order passed
CompiledOf(dir) ==
    LET listed(c) == c.file.dir = dir /\ c.file.kind = "listed"
        picked == SelectSeq(compiled, listed)
    IN  [i \in 1..Len(picked) |-> picked[i].file.name]

\* a sequence starts another
IsPrefix(s, q) == Len(s) <= Len(q) /\ s = SubSeq(q, 1, Len(s))

\* the positions in compiled of the package files of a folder
PackagePositions(dir) ==
    {k \in 1..Len(compiled) : compiled[k].file.dir = dir /\ compiled[k].file.kind = "package"}

\* C13: _compile passes files to GHDL library by library in the order unisim,
\* secureip, unimacro, unifast; the files of each vhdl_analyze_order manifest
\* in the order the manifest lists them, for unisim and unimacro after all
\* their package files; a GHDL process that exits non-zero ends the compile
\* with an exception, so that it is the last file passed to GHDL; a compile
\* that ends without exception has passed every listed file.
C13_SimlibOrderFailFast ==
    /\ \A i, j \in 1..Len(compiled) :
           i < j => LibraryIndex(compiled[i].library) <= LibraryIndex(compiled[j].library)
    /\ \A k \in 1..Len(compiled) :
           compiled[k].library =
               (IF compiled[k].file.dir \in {"unisims", "unisims/primitive", "unisims/retarget"}
                THEN "unisim"
                ELSE IF compiled[k].file.dir = "unisims/secureip" THEN "secureip"
                ELSE IF compiled[k].file.dir = "unimacro" THEN "unimacro" ELSE "unifast")
    /\ IsPrefix(CompiledOf("unisims/primitive"), simTree.primitive)
    /\ IsPrefix(CompiledOf("unimacro"), simTree.unimacro)
    /\ IsPrefix(CompiledOf("unifast/primitive"), simTree.unifast)
    /\ CompiledOf("unisims/primitive") # <<>> =>
           /\ Cardinality(PackagePositions("unisims")) = 4
           /\ \A k \in 1..Len(compiled) :
                  (compiled[k].file.dir = "unisims/primitive") =>
                      \A q \in PackagePositions("unisims") : q < k
    /\ CompiledOf("unimacro") # <<>> =>
           /\ Cardinality(PackagePositions("unimacro")) = 1
           /\ \A k \in 1..Len(compiled) :
                  (compiled[k].file.kind = "listed" /\ compiled[k].file.dir = "unimacro") =>
                      \A q \in PackagePositions("unimacro") : q < k
    /\ \A k \in 1..Len(compiled) :
           compiled[k].returncode # 0 =>
               /\ k = Len(compiled)
               /\ simPc = "raised"
               /\ simRaised = "CalledProcessError"
    /\ simPc = "done" =>
           /\ CompiledOf("unisims/primitive") = simTree.primitive
           /\ CompiledOf("unimacro") = simTree.unimacro
           /\ CompiledOf("unifast/primitive") = simTree.unifast

\* a compile was aborted by the exit code of a unimacro file after the unisim
\* manifest of two lines and two secureip files went through
C13_Witness ==
    /\ simPc = "raised"
    /\ simRaised = "CalledProcessError"
    /\ Len(simTree.primitive) = 2
    /\ CompiledOf("unisims/primitive") = simTree.primitive
    /\ Cardinality(simTree.secureip) = 2
    /\ CompiledOf("unimacro") = <<2>>
    /\ simTree.unifast # <<>>

\* C25: every GHDL invocation of the simlib compile uses the work directory
\* <output_path>/<version tag>/<library>/v08 of the library being compiled;
\* _add_to_vunit_project registers exactly the four libraries unisim, secureip,
\* unimacro and unifast at those same directories; after a _compile that
\* finished without error all four directories exist, so _add_to_vunit_project
\* does not fail.
C25_SimlibDirectories ==
    /\ [](/\ \A k \in 1..Len(compiled) :
                 /\ compiled[k].workdir
                        = <<"output_path", "version_tag", compiled[k].library, "v08">>
                 /\ compiled[k].workdir \in simDirs
          /\ addState = "returned" =>
                 vunitLibs =
                     [i \in 1..4 |->
                         [library |-> Libraries[i],
                          path |-> <<"output_path", "version_tag", Libraries[i], "v08">>]]
          /\ simPc = "done" =>
                 \A i \in 1..4 :
                     <<"output_path", "version_tag", Libraries[i], "v08">> \in simDirs)
    /\ [][ (simPc = "done" /\ addState' # addState) => addState' = "returned" ]_vars

----------------------------------------------------------------------------
(* tsfpga/vivado_simlib_ghdl.py: the simulator version tag *)

\* the literal "GHDL " both patterns start with
GhdlPrefix == <<"G", "H", "D", "L", " ">>

\* the characters \S does not match
IsSpace(c) == c \in {" ", "\n", "\t"}

RECURSIVE RunEnd(_, _)
\* the greedy \S+ tried at position i: the last position of the longest run
\* of non-space characters that starts there, i - 1 when there is none
RunEnd(s, i) ==
    IF i > Len(s) \/ IsSpace(s[i]) THEN i - 1 ELSE RunEnd(s, i + 1)

NoMatch == [matched |-> FALSE, group1 |-> <<>>, group2 |-> <<>>]

\* regexp_with_tag.search(output), "^GHDL (\S+) \((\S+)\).*": the first group
\* is the whole run after the prefix, since a blank has to follow it; the
\* second group is given back up to the last closing parenthesis of its run
SearchWithTag(output) ==
    IF ~StartsWithAt(output, 1, GhdlPrefix) THEN NoMatch
    ELSE LET e1 == RunEnd(output, Len(GhdlPrefix) + 1)
         IN  IF e1 <= Len(GhdlPrefix) \/ ~StartsWithAt(output, e1 + 1, <<" ", "(">>)
             THEN NoMatch
             ELSE LET e2 == RunEnd(output, e1 + 3)
                      closes == {k \in (e1 + 4)..e2 : output[k] = ")"}
                  IN  IF closes = {} THEN NoMatch
                      ELSE [matched |-> TRUE,
                            group1 |-> SubSeq(output, Len(GhdlPrefix) + 1, e1),
                            group2 |-> SubSeq(output, e1 + 3, Max(closes) - 1)]

\* regexp_without_tag.search(output), "^GHDL (\S+).*"
SearchWithoutTag(output) ==
    IF ~StartsWithAt(output, 1, GhdlPrefix) THEN NoMatch
    ELSE LET e1 == RunEnd(output, Len(GhdlPrefix) + 1)
         IN  IF e1 <= Len(GhdlPrefix) THEN NoMatch
             ELSE [matched |-> TRUE,
                   group1 |-> SubSeq(output, Len(GhdlPrefix) + 1, e1), group2 |-> <<>>]

TagResult(value, exception, message) ==
    [value |-> value, raised |-> exception, message |-> message]

\* _get_simulator_tag that tries the pattern without tag first
GetSimulatorTagVersionFirst(output) ==
    LET without == SearchWithoutTag(output)
        with == SearchWithTag(output)
    IN  IF without.matched
        THEN TagResult(<<"ghdl_">> \o without.group1, "none", <<>>)
        ELSE IF with.matched
        THEN TagResult(<<"ghdl_">> \o with.group1 \o <<"_">> \o with.group2, "none", <<>>)
        ELSE TagResult(<<>>, "ValueError",
                       <<"Could not find GHDL version string: ">> \o output)

\* VivadoSimlibGhdl._get_simulator_tag; the value is the string it hands to
\* _format_version
GetSimulatorTag(output) ==
    LET with == SearchWithTag(output)
        without == SearchWithoutTag(output)
    IN  IF with.matched
        THEN TagResult(<<"ghdl_">> \o with.group1 \o <<"_">> \o with.group2, "none", <<>>)
        ELSE IF without.matched
        THEN TagResult(<<"ghdl_">> \o without.group1, "none", <<>>)
        ELSE TagResult(<<>>, "ValueError",
                       <<"Could not find GHDL version string: ">> \o output)

\* the characters the version output continues with
OutputAlphabet == {" ", "(", ")", "1", "\n"}

RECURSIVE OutputTails(_)
OutputTails(n) ==
    IF n = 0 THEN {<<>>}
    ELSE {<<c>> \o s : c \in OutputAlphabet, s \in OutputTails(n - 1)}

\* how the version output starts
OutputHeads ==
    { GhdlPrefix, <<"G", "H", "D", "L">>, <<"\n">> \o GhdlPrefix, <<>> }

\* what "ghdl --version" prints
VersionOutputs ==
    { head \o tail : head \in OutputHeads,
                     tail \in UNION {OutputTails(n) : n \in 0..MaxOutputLen} }

\* a VivadoSimlibGhdl whose GHDL prints one of the version outputs
SimlibTagInit ==
    /\ ghdlOutput \in VersionOutputs
    /\ tagDone = FALSE
    /\ tagRet = <<>>
    /\ tagRaised = "none"
    /\ tagMessage = <<>>
    /\ simTree = <<>>
    /\ simPc = "idle"
    /\ simStage = 0
    /\ simTodo = <<>>
    /\ compiled = <<>>
    /\ simRaised = "none"
    /\ simDirs = {}
    /\ vunitLibs = <<>>
    /\ addState = "none"
    /\ ModuleQuiet
    /\ MdQuiet
    /\ YosysQuiet
    /\ DiscoveryQuiet
    /\ VunitQuiet

\* a call of _get_simulator_tag
CallGetSimulatorTag ==
    /\ ~tagDone
    /\ \E got \in {GetSimulatorTag(ghdlOutput)} :
        /\ tagRet' = got.value
        /\ tagRaised' = got.raised
        /\ tagMessage' = got.message
    /\ tagDone' = TRUE
    /\ UNCHANGED <<ghdlOutput, simTree, simPc, simStage, simTodo, compiled, simRaised,
                   simDirs, vunitLibs, addState,
                   moduleVars, mdVars, yosysVars, discoveryVars, vunitVars>>

NextSimlibTag == CallGetSimulatorTag

SpecSimlibTag == SimlibTagInit /\ [][NextSimlibTag]_vars

\* a non-empty piece of text without a space character, from a to b
IsToken(s, a, b) == a <= b /\ \A k \in a..b : ~IsSpace(s[k])

\* the output starts with "GHDL <version> (<tag>)": where the version ends and
\* where the closing parenthesis stands
TagForms(s) ==
    { ab \in (1..Len(s)) \X (1..Len(s)) :
        /\ StartsWithAt(s, 1, GhdlPrefix)
        /\ IsToken(s, Len(GhdlPrefix) + 1, ab[1])
        /\ StartsWithAt(s, ab[1] + 1, <<" ", "(">>)
        /\ IsToken(s, ab[1] + 3, ab[2] - 1)
        /\ s[ab[2]] = ")" }

\* the output starts with "GHDL <version>": where the version ends
VersionForms(s) ==
    { a \in 1..Len(s) :
        /\ StartsWithAt(s, 1, GhdlPrefix)
        /\ IsToken(s, Len(GhdlPrefix) + 1, a)
        /\ (a = Len(s) \/ IsSpace(s[a + 1])) }

\* C14: for an output that starts with "GHDL <version> (<tag>)"
\* _get_simulator_tag returns the tag built from that version and tag; for one
\* that starts with "GHDL <version>" and has no parenthesised tag the tag built
\* from the version alone; for any other output it raises ValueError with the
\* output in the message and returns nothing.
C14_SimulatorTag ==
    tagDone =>
        IF TagForms(ghdlOutput) # {}
        THEN /\ tagRaised = "none"
             /\ \E ab \in TagForms(ghdlOutput) :
                    tagRet = <<"ghdl_">>
                                 \o SubSeq(ghdlOutput, Len(GhdlPrefix) + 1, ab[1])
                                 \o <<"_">> \o SubSeq(ghdlOutput, ab[1] + 3, ab[2] - 1)
        ELSE IF VersionForms(ghdlOutput) # {}
        THEN /\ tagRaised = "none"
             /\ \E a \in VersionForms(ghdlOutput) :
                    tagRet = <<"ghdl_">> \o SubSeq(ghdlOutput, Len(GhdlPrefix) + 1, a)
        ELSE /\ tagRaised = "ValueError"
             /\ tagRet = <<>>
             /\ \E k \in 1..Len(tagMessage) :
                    SubSeq(tagMessage, k + 1, k + Len(ghdlOutput)) = ghdlOutput

\* the tag of the output "GHDL 1 (1)" has been returned
C14_Witness ==
    /\ tagDone
    /\ tagRaised = "none"
    /\ ghdlOutput = GhdlPrefix \o <<"1", " ", "(", "1", ")">>
    /\ tagRet = <<"ghdl_", "1", "_", "1">>

----------------------------------------------------------------------------
(* tsfpga/module.py: get_modules *)

\* an entry directly inside a modules folder: a module folder with the names
\* of the files in it, or a plain file
ModuleEntry(folder, name, kind, inside) ==
    [folder |-> folder, name |-> name, kind |-> kind, inside |-> inside]

\* f"module_{name}.py"
ModuleFileName(name) == <<"m", "o", "d", "u", "l", "e", "_">> \o name \o <<".", "p", "y">>

\* f"{name}_lib" if library_name_has_lib_suffix else name
LibraryName(name, library_name_has_lib_suffix) ==
    IF library_name_has_lib_suffix THEN name \o <<"_", "l", "i", "b">> ELSE name

NameA == <<"a">>
NameB == <<"b">>
NameC == <<"c">>

\* the entries the modules folders of the model are drawn from
CandidateModuleEntries ==
    { ModuleEntry("modules", NameA, "dir", {}),
      ModuleEntry("modules", NameA, "dir", {ModuleFileName(NameA)}),
      ModuleEntry("modules", NameB, "dir", {ModuleFileName(NameA)}),
      ModuleEntry("modules", NameB, "dir", {ModuleFileName(NameB)}),
      ModuleEntry("modules", NameC, "file", {}),
      ModuleEntry("modules", <<"t", ".", "t", "x", "t">>, "file", {}),
      ModuleEntry("more", NameA, "dir", {ModuleFileName(NameA)}),
      ModuleEntry("more", NameC, "dir", {}) }

\* the folder trees: no two entries with the same path
ModuleTrees ==
    { tree \in SUBSET CandidateModuleEntries :
        /\ Cardinality(tree) <= MaxModuleEntries
        /\ \A e1, e2 \in tree :
               (e1.folder = e2.folder /\ e1.name = e2.name) => e1 = e2 }

\* names_include / names_avoid: None (given = FALSE) or a set of names
NoNames == [given |-> FALSE, names |-> {}]

NameSet(names) == [given |-> TRUE, names |-> names]

RECURSIVE KeepDirs(_)
\* "if module_folder.is_dir(): yield module_folder" over the entries of a glob
KeepDirs(entries) ==
    IF entries = <<>> THEN <<>>
    ELSE IF Head(entries).kind = "dir" THEN <<Head(entries)>> \o KeepDirs(Tail(entries))
    ELSE KeepDirs(Tail(entries))

RECURSIVE IterateModuleFoldersAll(_, _)
\* _iterate_module_folders without the is_dir test
IterateModuleFoldersAll(tree, modules_folders) ==
    IF modules_folders = <<>> THEN <<>>
    ELSE SetToSeq({e \in tree : e.folder = Head(modules_folders)})
             \o IterateModuleFoldersAll(tree, Tail(modules_folders))

RECURSIVE IterateModuleFolders(_, _)
\* _iterate_module_folders
IterateModuleFolders(tree, modules_folders) ==
    IF modules_folders = <<>> THEN <<>>
    ELSE KeepDirs(SetToSeq({e \in tree : e.folder = Head(modules_folders)}))
             \o IterateModuleFolders(tree, Tail(modules_folders))

\* the class BaseModule, or the class Module that load_python_module gets from
\* a module file
BaseModuleClass == [kind |-> "BaseModule", folder |-> "", module |-> <<>>, file |-> <<>>]

ModuleClassOf(folder, module, file) ==
    [kind |-> "Module", folder |-> folder, module |-> module, file |-> file]

\* a module object: its class, path, name (path.name) and library name
ModuleObject(cls, module_folder, library_name) ==
    [cls |-> cls, path |-> [folder |-> module_folder.folder, name |-> module_folder.name],
     name |-> module_folder.name, library_name |-> library_name]

\* _get_module_object that never looks for a module file
GetModuleObjectAlwaysBase(module_folder, name, library_name_has_lib_suffix) ==
    ModuleObject(BaseModuleClass, module_folder,
                 LibraryName(name, library_name_has_lib_suffix))

\* _get_module_object
GetModuleObject(module_folder, name, library_name_has_lib_suffix) ==
    LET module_file == ModuleFileName(name)
        library_name == LibraryName(name, library_name_has_lib_suffix)
    IN  IF module_file \in module_folder.inside
        THEN ModuleObject(ModuleClassOf(module_folder.folder, module_folder.name, module_file),
                          module_folder, library_name)
        ELSE ModuleObject(BaseModuleClass, module_folder, library_name)

RECURSIVE ModulesOf(_, _, _, _)
\* the loop of get_modules over the module folders
ModulesOf(module_folders, names_include, names_avoid, library_name_has_lib_suffix) ==
    IF module_folders = <<>> THEN <<>>
    ELSE LET module_folder == Head(module_folders)
             module_name == module_folder.name
             rest == ModulesOf(Tail(module_folders), names_include, names_avoid,
                               library_name_has_lib_suffix)
         IN  IF names_include.given /\ module_name \notin names_include.names THEN rest
             ELSE IF names_avoid.given /\ module_name \in names_avoid.names THEN rest
             ELSE <<GetModuleObject(module_folder, module_name,
                                    library_name_has_lib_suffix)>> \o rest

\* get_modules
GetModules(tree, modules_folders, names_include, names_avoid, library_name_has_lib_suffix) ==
    ModulesOf(IterateModuleFolders(tree, modules_folders),
              names_include, names_avoid, library_name_has_lib_suffix)

----------------------------------------------------------------------------
(* Module discovery as a state machine *)

\* the modules_folders lists get_modules is called with
ModulesFolderLists == { <<"modules">>, <<"modules", "more">>, <<"more", "none", "modules">> }

\* the name sets get_modules is called with
NameChoices == { NoNames, NameSet({NameA, NameB}), NameSet({NameB, NameC}) }

ModulesCall(modules_folders, names_include, names_avoid, library_name_has_lib_suffix) ==
    [modules_folders |-> modules_folders, names_include |-> names_include,
     names_avoid |-> names_avoid,
     library_name_has_lib_suffix |-> library_name_has_lib_suffix]

\* modules folders on disk, before any call
DiscoveryInit ==
    /\ modTree \in ModuleTrees
    /\ modOp = <<>>
    /\ modules = <<>>
    /\ ModuleQuiet
    /\ MdQuiet
    /\ YosysQuiet
    /\ SimlibQuiet
    /\ VunitQuiet

\* a call of get_modules
CallGetModules ==
    \E modules_folders \in ModulesFolderLists, names_include \in NameChoices,
       names_avoid \in NameChoices, library_name_has_lib_suffix \in BOOLEAN :
        /\ modOp' = ModulesCall(modules_folders, names_include, names_avoid,
                                library_name_has_lib_suffix)
        /\ modules' = GetModules(modTree, modules_folders, names_include, names_avoid,
                                 library_name_has_lib_suffix)
        /\ UNCHANGED <<modTree, moduleVars, mdVars, yosysVars, simlibVars, vunitVars>>

NextDiscovery == CallGetModules

SpecDiscovery == DiscoveryInit /\ [][NextDiscovery]_vars

----------------------------------------------------------------------------
(* Claims about module discovery *)

\* the entries a call selects: directories of the given modules folders whose
\* name passes names_include and names_avoid
SelectedEntries ==
    { e \in modTree :
        /\ e.kind = "dir"
        /\ e.folder \in SeqToSet(modOp.modules_folders)
        /\ (modOp.names_include.given => e.name \in modOp.names_include.names)
        /\ (modOp.names_avoid.given => e.name \notin modOp.names_avoid.names) }

\* C15: get_modules returns exactly one module object for each entry of the
\* given modules folders that is a directory, whose name is in names_include
\* when given and not in names_avoid when given; a plain file never produces a
\* module.
C15_OneModulePerFolder ==
    modOp # <<>> =>
        /\ Len(modules) = Cardinality(SelectedEntries)
        /\ {modules[i].path : i \in 1..Len(modules)}
               = {[folder |-> e.folder, name |-> e.name] : e \in SelectedEntries}
        /\ \A i \in 1..Len(modules) :
               \A e \in modTree :
                   (e.folder = modules[i].path.folder /\ e.name = modules[i].path.name)
                       => e.kind = "dir"

\* a call with both name sets has returned a module from a tree that holds a
\* plain file with an included name and a directory with an avoided name
C15_Witness ==
    /\ modOp # <<>>
    /\ modOp.names_include.given
    /\ modOp.names_avoid.given
    /\ Len(modules) = 1
    /\ \E e \in modTree : e.kind = "file" /\ e.name \in modOp.names_include.names
                                          /\ e.name \notin modOp.names_avoid.names
    /\ \E e \in modTree : e.kind = "dir" /\ e.name \in modOp.names_avoid.names

\* C16: every module get_modules returns is built from the Module class of
\* <name>/module_<name>.py of its own folder when that file exists and from
\* BaseModule otherwise, with library name <name>, or <name>_lib when
\* library_name_has_lib_suffix is set.
C16_ModuleClassAndLibrary ==
    modOp # <<>> =>
        \A i \in 1..Len(modules) :
            \E e \in modTree :
                /\ e.folder = modules[i].path.folder
                /\ e.name = modules[i].path.name
                /\ modules[i].name = e.name
                /\ modules[i].library_name =
                       (IF modOp.library_name_has_lib_suffix
                        THEN e.name \o <<"_", "l", "i", "b">> ELSE e.name)
                /\ IF (<<"m", "o", "d", "u", "l", "e", "_">> \o e.name \o <<".", "p", "y">>)
                          \in e.inside
                   THEN /\ modules[i].cls.kind = "Module"
                        /\ modules[i].cls.folder = e.folder
                        /\ modules[i].cls.module = e.name
                   ELSE modules[i].cls.kind = "BaseModule"

\* a call with the _lib suffix has returned a module with its own class, one
\* of the same name from another modules folder, and one that holds only the
\* module file of another module and is a BaseModule
C16_Witness ==
    /\ modOp # <<>>
    /\ modOp.library_name_has_lib_suffix
    /\ Len(modules) = 3
    /\ \E i, j, k \in 1..Len(modules) :
           /\ modules[i].cls.kind = "Module" /\ modules[i].cls.folder = "modules"
           /\ modules[j].cls.kind = "Module" /\ modules[j].cls.folder = "more"
           /\ modules[k].cls.kind = "BaseModule"
           /\ modules[k].library_name = <<"b", "_", "l", "i", "b">>

----------------------------------------------------------------------------
(* tsfpga/module.py: BaseModule.test_case_name and add_vunit_config *)

\* a generic value: a Python int or str
IntValue(n) == [kind |-> "int", int |-> n, str |-> <<>>]

StrValue(s) == [kind |-> "str", int |-> 0, str |-> s]

\* one item of the generics dict
Generic(key, value) == [key |-> key, value |-> value]

\* the decimal digits
Digits == <<"0", "1", "2", "3", "4", "5", "6", "7", "8", "9">>

RECURSIVE NatToStr(_)
\* str() of a non-negative int
NatToStr(n) ==
    IF n < 10 THEN <<Digits[n + 1]>>
    ELSE NatToStr(n \div 10) \o <<Digits[(n % 10) + 1]>>

\* str() of an int
IntToStr(n) == IF n < 0 THEN <<"-">> \o NatToStr(-n) ELSE NatToStr(n)

\* f"{value}"
Format(value) == IF value.kind = "int" THEN IntToStr(value.int) ELSE value.str

\* the keys of a dict, as a set
Keys(generics) == {generics[i].key : i \in 1..Len(generics)}

\* generics[key] = value: the item is replaced where it stands, or added last
SetItem(generics, key, value) ==
    IF key \in Keys(generics)
    THEN [i \in 1..Len(generics) |->
             IF generics[i].key = key THEN Generic(key, value) ELSE generics[i]]
    ELSE Append(generics, Generic(key, value))

\* an argument that is None, or given with a value
Absent == [given |-> FALSE, value |-> <<>>]

Given(value) == [given |-> TRUE, value |-> value]

\* ".".join([f"{key}_{value}" for key, value in generics.items()])
GenericsString(generics) ==
    Join([i \in 1..Len(generics) |->
             generics[i].key \o <<"_">> \o Format(generics[i].value)], ".")

\* BaseModule.test_case_name
TestCaseName(name, generics) ==
    LET test_case_name == IF name.given /\ name.value # <<>> THEN name.value ELSE <<>>
    IN  IF generics.given /\ generics.value # <<>>
        THEN IF test_case_name # <<>>
             THEN name.value \o <<".">> \o GenericsString(generics.value)
             ELSE GenericsString(generics.value)
        ELSE test_case_name

\* the values of set_random_seed: a bool, None or an int
SeedBool(b) == [kind |-> "bool", bool |-> b, int |-> 0]

SeedNone == [kind |-> "None", bool |-> FALSE, int |-> 0]

SeedInt(n) == [kind |-> "int", bool |-> FALSE, int |-> n]

\* the default of the parameter set_random_seed
SetRandomSeedDefault == SeedBool(FALSE)

\* 2**31 - 1, the largest value random.randint(0, 2**31 - 1) returns
MaxSeed == 2147483647

\* values of random.randint(0, 2**31 - 1): both ends of the range and two inside
RandomSeeds == {0, 9, 2^16, MaxSeed}

\* a call test.add_config(name=..., generics=...)
AddConfig(name, generics) == [name |-> name, generics |-> generics]

\* add_vunit_config without the default name "test"
AddVunitConfigNoDefaultName(name, generics, set_random_seed, random) ==
    LET generics0 == IF generics.given THEN generics.value ELSE <<>>
        generics1 ==
            IF set_random_seed.kind = "bool"
            THEN IF set_random_seed.bool
                 THEN SetItem(generics0, <<"s", "e", "e", "d">>, IntValue(random))
                 ELSE generics0
            ELSE IF set_random_seed.kind = "int"
            THEN SetItem(generics0, <<"s", "e", "e", "d">>, IntValue(set_random_seed.int))
            ELSE generics0
    IN  <<AddConfig(TestCaseName(name, Given(generics1)), generics1)>>

\* BaseModule.add_vunit_config: the calls it makes on test; random is what
\* random.randint returns if it is called
AddVunitConfig(name, generics, set_random_seed, random) ==
    LET generics0 == IF generics.given THEN generics.value ELSE <<>>
        generics1 ==
            IF set_random_seed.kind = "bool"
            THEN IF set_random_seed.bool
                 THEN SetItem(generics0, <<"s", "e", "e", "d">>, IntValue(random))
                 ELSE generics0
            ELSE IF set_random_seed.kind = "int"
            THEN SetItem(generics0, <<"s", "e", "e", "d">>, IntValue(set_random_seed.int))
            ELSE generics0
        name1 == TestCaseName(name, Given(generics1))
        name2 == IF name1 = <<>> THEN <<"t", "e", "s", "t">> ELSE name1
    IN  <<AddConfig(name2, generics1)>>

----------------------------------------------------------------------------
(* add_vunit_config as a state machine *)

\* the name arguments of the calls
ConfigNames == { Absent, Given(<<>>), Given(<<"t", "b">>), Given(<<"a", ".", "b">>) }

\* the keys and values of the generics of the calls
GenericKeys == { <<"w">>, <<"d", "e", "p", "t", "h">>, <<"s", "e", "e", "d">> }

GenericValues == { IntValue(16), StrValue(<<"a", "x", "i">>) }

\* the generics arguments of the calls: None, or a dict of at most MaxGenerics
\* items
ConfigGenerics ==
    {Absent} \cup
    { Given(g) : g \in
        { q \in UNION {[1..n -> {Generic(k, v) : k \in GenericKeys, v \in GenericValues}] :
                          n \in 0..MaxGenerics} :
            \A i, j \in 1..Len(q) : i # j => q[i].key # q[j].key } }

\* the set_random_seed arguments of the calls
SeedArguments == { SeedBool(FALSE), SeedBool(TRUE), SeedNone,
                   SeedInt(0), SeedInt(7), SeedInt(-1), SeedInt(MaxSeed) }

ConfigCall(name, generics, assigned, set_random_seed) ==
    [name |-> name, generics |-> generics, assigned |-> assigned,
     set_random_seed |-> set_random_seed]

\* a module and a test object, and the arguments add_vunit_config is about to
\* be called with, set_random_seed assigned or left at its default
VunitConfigInit ==
    /\ cfgArgs \in
           { ConfigCall(name, generics, assigned, seed) :
               name \in ConfigNames, generics \in ConfigGenerics, assigned \in BOOLEAN,
               seed \in SeedArguments }
    /\ ~cfgArgs.assigned => cfgArgs.set_random_seed = SetRandomSeedDefault
    /\ cfgDone = FALSE
    /\ addConfigCalls = <<>>
    /\ ModuleQuiet
    /\ MdQuiet
    /\ YosysQuiet
    /\ SimlibQuiet
    /\ DiscoveryQuiet

\* the call of add_vunit_config
CallAddVunitConfig ==
    /\ ~cfgDone
    /\ cfgArgs # <<>>
    /\ \E random \in (IF cfgArgs.set_random_seed = SeedBool(TRUE) THEN RandomSeeds ELSE {0}) :
           addConfigCalls' = addConfigCalls \o AddVunitConfig(cfgArgs.name, cfgArgs.generics,
                                                              cfgArgs.set_random_seed, random)
    /\ cfgDone' = TRUE
    /\ UNCHANGED <<cfgArgs, moduleVars, mdVars, yosysVars, simlibVars, discoveryVars>>

NextVunitConfig == CallAddVunitConfig

SpecVunitConfig == VunitConfigInit /\ [][NextVunitConfig]_vars

----------------------------------------------------------------------------
(* Claims about add_vunit_config *)

\* the generics the caller passed, none when the argument was None
PassedGenerics == IF cfgArgs.generics.given THEN cfgArgs.generics.value ELSE <<>>

\* the value of the generic with the given key
ValueOf(generics, key) ==
    generics[CHOOSE i \in 1..Len(generics) : generics[i].key = key].value

\* the clauses of a config name: the name argument when it is not empty, then
\* one "<key>_<value>" for each generic
NameClauses(name, generics) ==
    (IF name.given /\ name.value # <<>> THEN <<name.value>> ELSE <<>>)
        \o [i \in 1..Len(generics) |->
               generics[i].key \o <<"_">> \o Format(generics[i].value)]

\* C24: add_vunit_config calls test.add_config exactly once with a non-empty
\* name; the name is "<name>.<key>_<value>..." built from name and the generics
\* it passes on, or "test" when both are absent; the seed generic is left as
\* the caller passed the generics when set_random_seed is unassigned, False or
\* None, is an integer in 0..2^31-1 when it is True, and equals set_random_seed
\* when that is an integer, in which case it also appears in the config name.
C24_AddVunitConfig ==
    cfgDone =>
        /\ Len(addConfigCalls) = 1
        /\ LET call == addConfigCalls[1]
               seed == <<"s", "e", "e", "d">>
               set_random_seed == cfgArgs.set_random_seed
               others(g) == SelectSeq(g, LAMBDA item : item.key # seed)
           IN  /\ call.name # <<>>
               /\ call.name =
                      (IF NameClauses(cfgArgs.name, call.generics) = <<>>
                       THEN <<"t", "e", "s", "t">>
                       ELSE Join(NameClauses(cfgArgs.name, call.generics), "."))
               /\ others(call.generics) = others(PassedGenerics)
               /\ (set_random_seed.kind = "None"
                      \/ (set_random_seed.kind = "bool" /\ ~set_random_seed.bool)) =>
                      call.generics = PassedGenerics
               /\ (set_random_seed.kind = "bool" /\ set_random_seed.bool) =>
                      /\ seed \in Keys(call.generics)
                      /\ ValueOf(call.generics, seed).kind = "int"
                      /\ ValueOf(call.generics, seed).int \in 0..MaxSeed
               /\ (set_random_seed.kind = "int") =>
                      /\ seed \in Keys(call.generics)
                      /\ ValueOf(call.generics, seed) = IntValue(set_random_seed.int)
                      /\ \E i \in 1..Len(call.name) - Len(seed) :
                             SubSeq(call.name, i, Len(call.name))
                                 = seed \o <<"_">> \o IntToStr(set_random_seed.int)
                                       \o SubSeq(call.name,
                                                 i + Len(seed) + 1
                                                   + Len(IntToStr(set_random_seed.int)),
                                                 Len(call.name))

\* add_vunit_config has been called without name and generics and with an
\* integer seed, and has named the config after the seed alone
C24_Witness ==
    /\ cfgDone
    /\ ~cfgArgs.name.given
    /\ ~cfgArgs.generics.given
    /\ cfgArgs.set_random_seed = SeedInt(7)
    /\ Len(addConfigCalls) = 1
    /\ addConfigCalls[1].name = <<"s", "e", "e", "d", "_", "7">>

====
